---- MODULE Spec2Model ----
(***************************************************************************)
(* The ledger shell of the node (apps/src/lib/node/ledger/mod.rs): the     *)
(* command loop Shell::run driven by the consensus host over the ABCI      *)
(* channel, the write log it stages transactions in, its gas meter, the    *)
(* in-memory storage and the persistent DB behind it.                      *)
(***************************************************************************)
EXTENDS Integers, Sequences, FiniteSets, TLC

----------------------------------------------------------------------------
(* Bounds of the model *)

\* ApplyTx commands the host sends in a session that drives blocks only
MaxTxs == 2
\* ApplyTx commands the host sends in a session with every command
MaxSessionTxs == 1
\* host calls (write / delete / init_account) the code of one tx makes
MaxOps == 1
\* block heights the host announces in BeginBlock are 1..MaxHeight
MaxHeight == 1
\* bytes in one segment of a storage key given to iter_prefix
MaxSegLen == 2
\* segments in one storage key given to iter_prefix
MaxSegs == 2
\* rows under the subspace of the height iter_prefix runs over
MaxStored == 2
\* prefix iterators inserted into the table of one WASM run
MaxIters == 2
\* addresses generated by one EstablishedAddressGen
MaxGens == 2
\* commands the matchmaker code emits through its host, over all runs
MaxCmds == 2
\* the highest balance of a token (the amounts are u64 in the program)
MaxAmount == 2
\* writes, deletes and transfers of one transaction on the token's keys
MaxTokenOps == 2

----------------------------------------------------------------------------
(* Data *)

\* Option<T>
None == <<>>
Some(v) == <<v>>
IsSome(o) == o # <<>>
Unwrap(o) == o[1]

\* Storage keys.  "a" holds a genesis value written by Shell::new, "b" is
\* a key nothing has been written to at genesis.
Keys == {"a", "b"}

\* The value Shell::new writes at genesis.
GenesisValue == 0

\* Block hashes and chain ids the host may announce.
Hashes == {"h1"}
ChainIds == {"chain"}

\* storage::open, then the genesis writes of Shell::new (Storage::write
\* updates the Merkle tree and the subspaces together).
StorageInit ==
    [ chain_id       |-> "",
      tree           |-> [k \in Keys |-> IF k = "a" THEN Some(GenesisValue) ELSE None],
      hash           |-> "h0",
      height         |-> 0,
      subspaces      |-> [k \in Keys |-> IF k = "a" THEN Some(GenesisValue) ELSE None],
      current_height |-> 0,
      address_gen    |-> "seed" ]

\* The persistent DB right after rocksdb::open on an empty directory.
Heights == 0 .. MaxHeight
DBInit ==
    [ chain_id |-> None,
      height   |-> None,
      rows     |-> [h \in Heights |-> None] ]

----------------------------------------------------------------------------
(* Gas meter: BlockGasMeter{block_gas, transaction_gas} with a ceiling per *)
(* transaction and per block.                                              *)

TxGasLimit == 4
BlockGasLimit == 6
TxDecodeGas == 1
KeyLen == 1
ValueLen == 1

GasDefault == [block_gas |-> 0, transaction_gas |-> 0]

\* BlockGasMeter::add: charge the running transaction; overflow is an error.
gas_add(gm, g) ==
    IF gm.transaction_gas + g > TxGasLimit
    THEN [ok |-> FALSE, gm |-> [gm EXCEPT !.transaction_gas = TxGasLimit]]
    ELSE [ok |-> TRUE, gm |-> [gm EXCEPT !.transaction_gas = @ + g]]

\* BlockGasMeter::finalize_transaction: move the transaction's gas to the block.
gas_finalize(gm) ==
    IF gm.block_gas + gm.transaction_gas > BlockGasLimit
    THEN [ok |-> FALSE, gm |-> [gm EXCEPT !.block_gas = BlockGasLimit]]
    ELSE [ok |-> TRUE,
          gm |-> [block_gas |-> gm.block_gas + gm.transaction_gas,
                  transaction_gas |-> 0]]

\* BlockGasMeter::reset
gas_reset(gm) == GasDefault

----------------------------------------------------------------------------
(* Storage facade: the in-memory block over the DB.                        *)

\* Storage::write: the SMT and the subspace are updated together.
storage_write(st, k, v) ==
    [st EXCEPT !.tree[k] = Some(v), !.subspaces[k] = Some(v)]

\* Storage::delete
storage_delete(st, k) ==
    [st EXCEPT !.tree[k] = None, !.subspaces[k] = None]

\* Storage::read
storage_read(st, k) == st.subspaces[k]

\* Storage::merkle_root: the commitment to the live (key, value) pairs.
merkle_root(tree) ==
    {<<k, Unwrap(tree[k])>> : k \in {x \in Keys : IsSome(tree[x])}}

\* Storage::begin_block
storage_begin_block(st, hash, height) ==
    [st EXCEPT !.hash = hash, !.height = height]

----------------------------------------------------------------------------
(* The DB adapter (storage/rocksdb.rs).                                    *)

\* The outcomes of one write_block: both DB writes succeed, the batch
\* write fails, or the batch is written and the put of `height` fails.
DbFaults == {"none", "batch", "height"}

\* A write_block that puts the `height` pointer before it writes the batch.
write_block_pointer_first(db, tree, hash, height, subspaces, address_gen, fault) ==
    LET row == [ root        |-> merkle_root(tree),
                 store       |-> tree,
                 hash        |-> hash,
                 address_gen |-> address_gen,
                 subspace    |-> subspaces ]
        pointed == [db EXCEPT !.height = Some(height)]
    IN  CASE fault = "height" -> [ok |-> FALSE, db |-> db]
          [] fault = "batch"  -> [ok |-> FALSE, db |-> pointed]
          [] OTHER            -> [ok |-> TRUE,
                                  db |-> [pointed EXCEPT !.rows[height] = Some(row)]]

\* RocksDB::write_block: one batch with the rows of <height>/..., then the
\* `height` pointer.  A put replaces the row of its key; rows of subspace
\* keys that are not in `subspaces` are not part of the batch and stay.
write_block(db, tree, hash, height, subspaces, address_gen, fault) ==
    LET old == db.rows[height]
        row == [ root        |-> merkle_root(tree),
                 store       |-> tree,
                 hash        |-> hash,
                 address_gen |-> address_gen,
                 subspace    |-> [k \in Keys |->
                                    IF IsSome(subspaces[k]) THEN subspaces[k]
                                    ELSE IF IsSome(old) THEN Unwrap(old).subspace[k]
                                    ELSE None] ]
        batched == [db EXCEPT !.rows[height] = Some(row)]
    IN  CASE fault = "batch"  -> [ok |-> FALSE, db |-> db]
          [] fault = "height" -> [ok |-> FALSE, db |-> batched]
          [] OTHER            -> [ok |-> TRUE,
                                  db |-> [batched EXCEPT !.height = Some(height)]]

\* RocksDB::write_chain_id
write_chain_id(db, chain_id, fault) ==
    IF fault = "none"
    THEN [ok |-> TRUE, db |-> [db EXCEPT !.chain_id = Some(chain_id)]]
    ELSE [ok |-> FALSE, db |-> db]

\* The rows the DB holds, one by one: under every height the rows
\* tree/root, tree/store, hash and address_gen (each there or not) and the
\* subspace rows.  A block written by write_block has all of them.
NoRows ==
    [root |-> None, store |-> None, hash |-> None, address_gen |-> None,
     subspace |-> [k \in Keys |-> None]]
DbRows(db) ==
    [ chain_id |-> db.chain_id,
      height   |-> db.height,
      rows     |-> [h \in DOMAIN db.rows |->
                      IF IsSome(db.rows[h])
                      THEN LET row == Unwrap(db.rows[h]) IN
                           [ root        |-> Some(row.root),
                             store       |-> Some(row.store),
                             hash        |-> Some(row.hash),
                             address_gen |-> Some(row.address_gen),
                             subspace    |-> row.subspace ]
                      ELSE NoRows] ]

\* A read_last_block that takes a block with a missing row for no block.
read_last_block_lenient(d) ==
    IF ~IsSome(d.chain_id) \/ ~IsSome(d.height)
    THEN [ok |-> TRUE, state |-> None]
    ELSE LET row == d.rows[Unwrap(d.height)] IN
         IF IsSome(row.root) /\ IsSome(row.store) /\ IsSome(row.hash)
            /\ IsSome(row.address_gen)
         THEN [ok |-> TRUE,
               state |-> Some([ chain_id    |-> Unwrap(d.chain_id),
                                tree        |-> Unwrap(row.store),
                                hash        |-> Unwrap(row.hash),
                                height      |-> Unwrap(d.height),
                                subspaces   |-> row.subspace,
                                address_gen |-> Unwrap(row.address_gen) ])]
         ELSE [ok |-> TRUE, state |-> None]

\* RocksDB::read_last_block: None without the chain_id or the height
\* pointer; else the rows under that height are scanned, and the block
\* state is returned when root, store, hash and address_gen were all
\* found, an error when any of them is missing.
read_last_block(d) ==
    IF ~IsSome(d.chain_id) THEN [ok |-> TRUE, state |-> None]
    ELSE IF ~IsSome(d.height) THEN [ok |-> TRUE, state |-> None]
    ELSE LET h == Unwrap(d.height)
             row == d.rows[h]
         IN  IF IsSome(row.root) /\ IsSome(row.store) /\ IsSome(row.hash)
                /\ IsSome(row.address_gen)
             THEN [ok |-> TRUE,
                   state |-> Some([ chain_id    |-> Unwrap(d.chain_id),
                                    tree        |-> Unwrap(row.store),
                                    hash        |-> Unwrap(row.hash),
                                    height      |-> h,
                                    subspaces   |-> row.subspace,
                                    address_gen |-> Unwrap(row.address_gen) ])]
             ELSE [ok |-> FALSE, state |-> None]

\* Storage::set_chain_id: the in-memory id, then the DB row.
set_chain_id(st, db, chain_id, fault) ==
    LET w == write_chain_id(db, chain_id, fault) IN
    [ok |-> w.ok, storage |-> [st EXCEPT !.chain_id = chain_id], db |-> w.db]

\* Storage::commit: persist the block, then advance current_height.
storage_commit(st, db, fault) ==
    LET w == write_block(db, st.tree, st.hash, st.height, st.subspaces,
                         st.address_gen, fault) IN
    [ok |-> w.ok,
     storage |-> IF w.ok THEN [st EXCEPT !.current_height = st.height] ELSE st,
     db |-> w.db]

\* Storage::load_last_state: replace the in-memory block by the last
\* persisted one, if there is one.
load_last_state(st, db) ==
    LET r == read_last_block(DbRows(db)) IN
    IF ~r.ok THEN [ok |-> FALSE, storage |-> st, result |-> None]
    ELSE IF ~IsSome(r.state) THEN [ok |-> TRUE, storage |-> st, result |-> None]
    ELSE LET b == Unwrap(r.state) IN
         [ok |-> TRUE,
          storage |-> [ chain_id       |-> b.chain_id,
                        tree           |-> b.tree,
                        hash           |-> b.hash,
                        height         |-> b.height,
                        subspaces      |-> b.subspaces,
                        current_height |-> b.height,
                        address_gen    |-> b.address_gen ],
          result |-> Some(<<merkle_root(b.tree), b.height>>)]

----------------------------------------------------------------------------
(* Write log: the (tx, block) overlay of staged modifications.  A staged   *)
(* modification is Write, Delete or InitAccount; `by` is the value a Write *)
(* or InitAccount stages, which is the sequence number of the transaction  *)
(* that stages it (every transaction writes bytes of its own), so that an  *)
(* effect found in storage names the transaction it comes from.            *)

EmptyLog == [k \in Keys |-> None]

\* WriteLog::default
WriteLogDefault == [tx_writes |-> EmptyLog, block_writes |-> EmptyLog]

\* WriteLog::write, WriteLog::delete, WriteLog::init_account: tx scope.
wl_write(wl, k, by) ==
    [wl EXCEPT !.tx_writes[k] = Some([op |-> "Write", by |-> by])]
wl_delete(wl, k, by) ==
    [wl EXCEPT !.tx_writes[k] = Some([op |-> "Delete", by |-> by])]
wl_init_account(wl, k, by) ==
    [wl EXCEPT !.tx_writes[k] = Some([op |-> "InitAccount", by |-> by])]

\* The value a staged modification makes a read return.
mod_value(m) == IF m.op = "Delete" THEN None ELSE Some(m.by)

\* read: tx writes shadow block writes, which shadow committed storage.
wl_read(wl, st, k) ==
    IF IsSome(wl.tx_writes[k]) THEN mod_value(Unwrap(wl.tx_writes[k]))
    ELSE IF IsSome(wl.block_writes[k]) THEN mod_value(Unwrap(wl.block_writes[k]))
    ELSE storage_read(st, k)

\* WriteLog::commit_tx: merge the tx writes into the block; the tx entry wins.
commit_tx(wl) ==
    [ tx_writes    |-> EmptyLog,
      block_writes |-> [k \in Keys |->
                          IF IsSome(wl.tx_writes[k]) THEN wl.tx_writes[k]
                          ELSE wl.block_writes[k]] ]

\* A drop_tx that discards nothing.
drop_tx_keeps(wl) == wl

\* WriteLog::drop_tx: discard the tx writes.
drop_tx(wl) == [wl EXCEPT !.tx_writes = EmptyLog]

\* The storage after one staged modification is applied to it.
apply_mod(st, k, m) ==
    IF m.op = "Delete" THEN storage_delete(st, k) ELSE storage_write(st, k, m.by)

RECURSIVE apply_block(_, _, _)
apply_block(st, block_writes, keys) ==
    IF keys = {} THEN st
    ELSE LET k == CHOOSE x \in keys : TRUE
             st1 == IF IsSome(block_writes[k])
                    THEN apply_mod(st, k, Unwrap(block_writes[k]))
                    ELSE st
         IN  apply_block(st1, block_writes, keys \ {k})

\* WriteLog::commit_block: write every block entry into storage, then
\* clear the block writes.
commit_block(wl, st) ==
    [ write_log |-> [wl EXCEPT !.block_writes = EmptyLog],
      storage   |-> apply_block(st, wl.block_writes, Keys) ]

\* The view that reads through the write log give: what a transaction or a
\* validity predicate (post view) sees at every key.
ReadView(wl, st) == [k \in Keys |-> wl_read(wl, st, k)]

----------------------------------------------------------------------------
(* Transactions on the wire (apps/src/lib/proto/types.rs).                 *)

\* The host calls that the code of a transaction makes.
TxOps == [op : {"write", "delete", "init_account"}, key : Keys]

RECURSIVE SeqsUpTo(_, _)
SeqsUpTo(S, n) ==
    IF n = 0 THEN {<<>>}
    ELSE LET shorter == SeqsUpTo(S, n - 1) IN
         shorter \cup {Append(q, x) : q \in {y \in shorter : Len(y) = n - 1}, x \in S}

\* Transaction code: at most n host calls, whether it traps after them,
\* and the bytes it writes (`id`).
TxCodes(id, n) == [ops : SeqsUpTo(TxOps, n), trap : BOOLEAN, id : {id}]

\* Transaction data: a signature the validity predicates of the touched
\* accounts check, or nothing.
TxDatas == {None, Some("sig")}

NoCode == [ops |-> <<>>, trap |-> FALSE, id |-> 0]

\* The byte strings the host may send as a transaction with one of the
\* given codes: bytes that are no protobuf Tx, an encoded wire Tx without
\* a timestamp, and encoded wire Txs with one.
TxBytes(codes) ==
    {[wire |-> "garbage", code |-> NoCode, data |-> None, timestamp |-> None],
     [wire |-> "proto", code |-> NoCode, data |-> None, timestamp |-> None]}
    \cup [wire : {"proto"}, code : codes, data : TxDatas, timestamp : {Some("t")}]

\* impl TryFrom<&[u8]> for Tx
Tx_try_from(tx_bytes) ==
    IF tx_bytes.wire # "proto"
    THEN [ok |-> FALSE, err |-> "TxDecodingError", tx |-> None]
    ELSE IF ~IsSome(tx_bytes.timestamp)
    THEN [ok |-> FALSE, err |-> "NoTimestampError", tx |-> None]
    ELSE [ok |-> TRUE, err |-> "",
          tx |-> Some([code |-> tx_bytes.code, data |-> tx_bytes.data,
                       timestamp |-> Unwrap(tx_bytes.timestamp)])]

----------------------------------------------------------------------------
(* Transaction protocol: protocol::apply_tx, the pipeline the shell calls. *)

\* Gas of one host call: key.len() + value.len(), no value for a delete.
op_gas(o) == IF o.op = "delete" THEN KeyLen ELSE KeyLen + ValueLen

\* One host call of the transaction code against the write log.
host_call(wl, o, id) ==
    CASE o.op = "write"  -> wl_write(wl, o.key, id)
      [] o.op = "delete" -> wl_delete(wl, o.key, id)
      [] OTHER           -> wl_init_account(wl, o.key, id)

\* Run the transaction code from its i-th host call on: each call stages
\* its modification in the shell's write log and is then charged; running
\* out of gas or a trap ends the run with an error.
RECURSIVE execute_tx(_, _, _, _)
execute_tx(code, i, gm, wl) ==
    IF i > Len(code.ops)
    THEN [ok |-> ~code.trap,
          err |-> IF code.trap THEN "TxRunnerError" ELSE "",
          gas_meter |-> gm, write_log |-> wl]
    ELSE LET wl1 == host_call(wl, code.ops[i], code.id)
             g   == gas_add(gm, op_gas(code.ops[i]))
         IN  IF ~g.ok
             THEN [ok |-> FALSE, err |-> "GasError",
                   gas_meter |-> g.gm, write_log |-> wl1]
             ELSE execute_tx(code, i + 1, g.gm, wl1)

\* The conjunction of the verifiers' validity predicates: they accept a
\* transaction that carries a signature.
vps_accept(tx) == IsSome(tx.data)

NoResult == [gas_used |-> 0, accepted |-> FALSE]

\* protocol::apply_tx(tx_bytes, gas_meter, write_log, storage): decode,
\* charge the decoding gas, run the code over the write log, run the VPs,
\* finalize the gas.  It neither commits nor drops the tx writes.
protocol_apply_tx(tx_bytes, gm, wl, st) ==
    LET dec == Tx_try_from(tx_bytes) IN
    IF ~dec.ok
    THEN [ok |-> FALSE, err |-> dec.err, gas_meter |-> gm, write_log |-> wl,
          result |-> NoResult]
    ELSE
    LET tx == Unwrap(dec.tx)
        g0 == gas_add(gm, TxDecodeGas)
    IN  IF ~g0.ok
        THEN [ok |-> FALSE, err |-> "GasError", gas_meter |-> g0.gm,
              write_log |-> wl, result |-> NoResult]
        ELSE
        LET ex == execute_tx(tx.code, 1, g0.gm, wl) IN
        IF ~ex.ok
        THEN [ok |-> FALSE, err |-> ex.err, gas_meter |-> ex.gas_meter,
              write_log |-> ex.write_log, result |-> NoResult]
        ELSE
        LET fin == gas_finalize(ex.gas_meter) IN
        IF ~fin.ok
        THEN [ok |-> FALSE, err |-> "GasError", gas_meter |-> fin.gm,
              write_log |-> ex.write_log, result |-> NoResult]
        ELSE [ok |-> TRUE, err |-> "", gas_meter |-> fin.gm,
              write_log |-> ex.write_log,
              result |-> [gas_used |-> ex.gas_meter.transaction_gas,
                          accepted |-> vps_accept(tx)]]

\* init_account returns an address that the generator has never returned:
\* the key it stages is one that nothing is stored or staged at.
FreshAccounts(tx_bytes, wl, st) ==
    \A i \in 1 .. Len(tx_bytes.code.ops) :
        tx_bytes.code.ops[i].op = "init_account" =>
            /\ wl_read(wl, st, tx_bytes.code.ops[i].key) = None
            /\ \A j \in 1 .. (i - 1) :
                   tx_bytes.code.ops[j].key # tx_bytes.code.ops[i].key

----------------------------------------------------------------------------
(* The shell (apps/src/lib/node/ledger/mod.rs).                            *)

VARIABLES
    shell,      \* position of Shell::run: "recv", "stopped" (Ok), "failed" (Err)
    abci,       \* the command channel: the commands sent and not yet received
    host,       \* the consensus host: "idle", "waiting" for a reply, "stopped"
    reply,      \* the one-shot reply channel of the command in flight
    storage,    \* Shell.storage: the in-memory block
    db,         \* the persistent DB behind the storage
    gas_meter,  \* Shell.gas_meter
    write_log,  \* Shell.write_log
    \* History of the session, read by the properties only:
    txSeq,      \* number of ApplyTx commands handled; the n-th writes the value n
    verdict,    \* what became of the n-th applied transaction
    stagedBy,   \* the transactions whose code staged a modification
    applied,    \* the transactions a modification of which commit_block wrote
    settled,    \* the transactions 1..settled were followed by a Commit
    open,       \* a BeginBlock was handled and no Commit since
    begun,      \* a BeginBlock was handled in this session
    blockAcc,   \* per key, the last write or delete by an accepted transaction
                \* since the last Commit, in arrival order
    \* A call of an operation of the storage layer made on its own:
    call        \* the operation, its arguments and, once it has run, its result

vars == <<shell, abci, host, reply, storage, db, gas_meter, write_log,
          txSeq, verdict, stagedBy, applied, settled, open, begun, blockAcc,
          call>>

state == <<storage, db, gas_meter, write_log>>
history == <<txSeq, verdict, stagedBy, applied, settled, open, begun, blockAcc>>

TxIds == 1 .. MaxTxs

\* No call of a storage operation on its own is under way.
NoCall == [fn |-> "none", stage |-> "none"]

\* The reply channel: whom it answers, whether its receiver is still held
\* by the host ("alive") or was dropped ("gone"), and whether the shell has
\* sent on it ("sent", with the value), failed to send ("send_error") or
\* let the sender go unused ("dropped").
NoReply ==
    [to |-> "none", path |-> "", status |-> "none", value |-> "", rx |-> "alive"]
Pending(m) ==
    [to |-> m.type, path |-> m.path, status |-> "pending", value |-> "", rx |-> "alive"]

\* reply.send(value): an error when the receiver was dropped.
Send(value) ==
    IF reply.rx = "gone"
    THEN [reply EXCEPT !.status = "send_error"]
    ELSE [reply EXCEPT !.status = "sent", !.value = value]

\* A loop that goes on to the next command after a failed send.
after_send_ignores(r) == "recv"

\* `.map_err(AbciChannelSendError)?` on the send: run returns the error.
after_send(r) == IF r.rx = "gone" THEN "failed" ELSE "recv"
Dropped == [reply EXCEPT !.status = "dropped"]

\* Shell::new: the opened storage with the genesis writes, a default gas
\* meter and write log; nothing sent on the channel yet.
ShellInit ==
    /\ shell = "recv"
    /\ abci = <<>>
    /\ host = "idle"
    /\ reply = NoReply
    /\ storage = StorageInit
    /\ db = DBInit
    /\ gas_meter = GasDefault
    /\ write_log = WriteLogDefault
    /\ txSeq = 0
    /\ verdict = [t \in TxIds |-> "none"]
    /\ stagedBy = {}
    /\ applied = {}
    /\ settled = 0
    /\ open = FALSE
    /\ begun = FALSE
    /\ blockAcc = [k \in Keys |-> None]

Init == ShellInit /\ call = NoCall

\* An apply_tx that merges the tx writes whatever the verdict of the VPs.
apply_tx_commits_rejected(tx_bytes) ==
    LET r == protocol_apply_tx(tx_bytes, gas_meter, write_log, storage) IN
    [ gas_meter |-> r.gas_meter,
      write_log |-> IF r.ok THEN commit_tx(r.write_log) ELSE r.write_log,
      storage   |-> storage,
      ok        |-> r.ok,
      value     |-> IF r.ok
                    THEN (IF r.result.accepted THEN "accepted" ELSE "rejected")
                    ELSE r.err ]

\* An apply_tx that writes the accepted transaction through to storage.
apply_tx_writes_through(tx_bytes) ==
    LET r == protocol_apply_tx(tx_bytes, gas_meter, write_log, storage)
        acc == r.ok /\ r.result.accepted
    IN  [ gas_meter |-> r.gas_meter,
          write_log |-> IF r.ok
                        THEN (IF acc THEN commit_tx(r.write_log) ELSE drop_tx(r.write_log))
                        ELSE r.write_log,
          storage   |-> IF acc THEN commit_block(commit_tx(r.write_log), storage).storage
                        ELSE storage,
          ok        |-> r.ok,
          value     |-> IF r.ok THEN (IF acc THEN "accepted" ELSE "rejected") ELSE r.err ]

\* A dry_run_tx that runs on the shell's own write log and gas meter.
dry_run_tx_in_place(tx_bytes) ==
    LET r == protocol_apply_tx(tx_bytes, gas_meter, write_log, storage) IN
    [ gas_meter |-> r.gas_meter,
      write_log |-> r.write_log,
      storage   |-> storage,
      ok        |-> r.ok,
      value     |-> IF r.ok
                    THEN (IF r.result.accepted THEN "accepted" ELSE "rejected")
                    ELSE r.err ]

\* TxResult::is_accepted
is_accepted(result) == result.accepted

\* Shell::apply_tx: run the pipeline on the shell's gas meter and write log
\* and the storage (by shared reference); commit_tx when the result is
\* accepted, drop_tx when it is not; on an error neither.
apply_tx(tx_bytes) ==
    LET r == protocol_apply_tx(tx_bytes, gas_meter, write_log, storage) IN
    IF r.ok
    THEN [ gas_meter |-> r.gas_meter,
           write_log |-> IF is_accepted(r.result)
                         THEN commit_tx(r.write_log)
                         ELSE drop_tx(r.write_log),
           storage   |-> storage,
           ok        |-> TRUE,
           value     |-> IF is_accepted(r.result) THEN "accepted" ELSE "rejected" ]
    ELSE [ gas_meter |-> r.gas_meter,
           write_log |-> r.write_log,
           storage   |-> storage,
           ok        |-> FALSE,
           value     |-> r.err ]

\* Shell::dry_run_tx: the pipeline on a fresh gas meter and a clone of the
\* write log; the result is returned as a string.
dry_run_tx(tx_bytes) ==
    LET r == protocol_apply_tx(tx_bytes, GasDefault, write_log, storage) IN
    [ gas_meter |-> gas_meter,
      write_log |-> write_log,
      storage   |-> storage,
      ok        |-> r.ok,
      value     |-> IF r.ok
                    THEN (IF is_accepted(r.result) THEN "accepted" ELSE "rejected")
                    ELSE r.err ]

\* A mempool_validate that also asks for signed data.
mempool_validate_checks_data(tx_bytes, type) ==
    LET dec == Tx_try_from(tx_bytes) IN
    [ok |-> dec.ok /\ IsSome(tx_bytes.data),
     value |-> IF dec.ok /\ IsSome(tx_bytes.data) THEN "ok" ELSE "TxDecodingError"]

\* Shell::mempool_validate: decode only.
mempool_validate(tx_bytes, type) ==
    LET dec == Tx_try_from(tx_bytes) IN
    [ok |-> dec.ok, value |-> IF dec.ok THEN "ok" ELSE dec.err]

\* Shell::init_chain
init_chain(chain_id, fault) == set_chain_id(storage, db, chain_id, fault)

\* Shell::begin_block
begin_block(hash, height) ==
    [ gas_meter |-> gas_reset(gas_meter),
      storage   |-> storage_begin_block(storage, hash, height) ]

\* Shell::commit: commit_block of the write log into storage, persist the
\* storage (a storage error is logged and dropped), return the Merkle root.
commit(fault) ==
    LET cb == commit_block(write_log, storage)
        sc == storage_commit(cb.storage, db, fault)
    IN  [ write_log |-> cb.write_log,
          storage   |-> sc.storage,
          db        |-> sc.db,
          persisted |-> sc.ok,
          root      |-> merkle_root(sc.storage.tree) ]

\* Shell::last_state: an error of load_last_state is logged and read as None.
last_state ==
    LET r == load_last_state(storage, db) IN
    [storage |-> r.storage, result |-> IF r.ok THEN r.result ELSE None]

----------------------------------------------------------------------------
(* The consensus host: it sends one command, then blocks on its reply.     *)

Commands ==
    { [type |-> t, path |-> ""] :
        t \in {"GetInfo", "InitChain", "MempoolValidate", "BeginBlock",
               "ApplyTx", "EndBlock", "CommitBlock", "Terminate"} }
    \cup { [type |-> "AbciQuery", path |-> p] : p \in {"dry_run_tx", "other"} }

HostSend(m, maxTxs) ==
    /\ host = "idle"
    /\ shell = "recv"
    /\ m.type = "ApplyTx" => txSeq < maxTxs
    /\ abci' = Append(abci, m)
    /\ host' = IF m.type = "Terminate" THEN "stopped" ELSE "waiting"
    /\ reply' = IF m.type = "Terminate" THEN NoReply ELSE Pending(m)
    /\ UNCHANGED <<shell, state, history, call>>

\* The blocked host resumes: with the reply, or with a receive error when
\* the shell dropped the reply sender without sending.
HostRecvReply ==
    /\ host = "waiting"
    /\ reply.status \in {"sent", "dropped"}
    /\ host' = "idle"
    /\ reply' = NoReply
    /\ UNCHANGED <<shell, abci, state, history, call>>

\* The host process dies while it waits for a reply: the receivers of its
\* reply channels are dropped; a command another of its connections had
\* sent meanwhile (q) stays queued behind the one in flight.
HostCrash(q) ==
    /\ host = "waiting"
    /\ shell = "recv"
    /\ reply.status = "pending"
    /\ abci # <<>>
    /\ \A i \in 1 .. Len(q) : q[i].type = "ApplyTx" => txSeq < MaxSessionTxs
    /\ host' = "crashed"
    /\ reply' = [reply EXCEPT !.rx = "gone"]
    /\ abci' = abci \o q
    /\ UNCHANGED <<shell, state, history, call>>

----------------------------------------------------------------------------
(* Shell::run: one action per arm of the match on the received command.    *)

Receives(type) ==
    /\ shell = "recv"
    /\ abci # <<>>
    /\ Head(abci).type = type

RecvGetInfo ==
    /\ Receives("GetInfo")
    /\ LET r == last_state IN
       /\ storage' = r.storage
       /\ reply' = Send(IF IsSome(r.result) THEN "some" ELSE "none")
    /\ shell' = after_send(reply)
    /\ abci' = Tail(abci)
    /\ UNCHANGED <<host, db, gas_meter, write_log, history, call>>

\* `self.init_chain(chain_id)?`: a storage error ends run before the reply.
RecvInitChain ==
    /\ Receives("InitChain")
    /\ \E chain_id \in ChainIds, fault \in {"none", "batch"} :
         LET r == init_chain(chain_id, fault) IN
         /\ storage' = r.storage
         /\ db' = r.db
         /\ shell' = IF r.ok THEN after_send(reply) ELSE "failed"
         /\ reply' = IF r.ok THEN Send("ok") ELSE Dropped
    /\ abci' = Tail(abci)
    /\ UNCHANGED <<host, gas_meter, write_log, history, call>>

\* The mempool transaction types.
MempoolTxTypes == {"NewTransaction", "RecheckTransaction"}

\* mempool_validate never looks at the code of the transaction.
RecvMempoolValidate ==
    /\ Receives("MempoolValidate")
    /\ \E tx_bytes \in TxBytes({NoCode}),
          type \in MempoolTxTypes :
         reply' = Send(mempool_validate(tx_bytes, type).value)
    /\ shell' = after_send(reply)
    /\ abci' = Tail(abci)
    /\ UNCHANGED <<host, state, history, call>>

RecvBeginBlock ==
    /\ Receives("BeginBlock")
    /\ \E hash \in Hashes, height \in 1 .. MaxHeight :
         LET r == begin_block(hash, height) IN
         /\ gas_meter' = r.gas_meter
         /\ storage' = r.storage
    /\ reply' = Send("ok")
    /\ open' = TRUE
    /\ begun' = TRUE
    /\ abci' = Tail(abci)
    /\ shell' = after_send(reply)
    /\ UNCHANGED <<host, db, write_log, txSeq, verdict, stagedBy,
                   applied, settled, blockAcc, call>>

\* The last operation on every key once the host calls of an accepted
\* transaction are added: Some(None) for a delete, Some(Some(v)) for a
\* write or account initialisation of v.
RECURSIVE RefApply(_, _, _, _)
RefApply(acc, ops, i, id) ==
    IF i > Len(ops) THEN acc
    ELSE RefApply([acc EXCEPT ![ops[i].key] =
                      Some(IF ops[i].op = "delete" THEN None ELSE Some(id))],
                  ops, i + 1, id)

\* What reads return when exactly the accepted transactions since the
\* last Commit have taken effect, in arrival order, on the storage st.
AcceptedView(acc, st) ==
    [k \in Keys |-> IF IsSome(acc[k]) THEN Unwrap(acc[k]) ELSE storage_read(st, k)]

\* What became of a transaction in the pipeline.
Verdict(r) ==
    IF r.ok THEN (IF r.result.accepted THEN "accepted" ELSE "rejected")
    ELSE IF r.err \in {"TxDecodingError", "NoTimestampError"} THEN "malformed"
    ELSE "error"

\* An ApplyTx arm that propagates the error of apply_tx out of run.
apply_tx_arm_aborts(a) == IF a.ok THEN "recv" ELSE "failed"

\* The ApplyTx arm: the result, Ok or Err, is sent as the reply; the loop
\* goes on to the next command either way, unless the send fails.
apply_tx_arm(a) == after_send(reply)

RecvApplyTx ==
    /\ Receives("ApplyTx")
    /\ \E tx_bytes \in TxBytes(TxCodes(txSeq + 1, MaxOps)) :
         /\ FreshAccounts(tx_bytes, write_log, storage)
         /\ LET a == apply_tx(tx_bytes)
                r == protocol_apply_tx(tx_bytes, gas_meter, write_log, storage)
            IN  /\ gas_meter' = a.gas_meter
                /\ write_log' = a.write_log
                /\ storage' = a.storage
                /\ shell' = apply_tx_arm(a)
                /\ reply' = IF apply_tx_arm(a) = "failed" /\ reply.rx = "alive"
                            THEN Dropped
                            ELSE Send(a.value)
                /\ verdict' = [verdict EXCEPT ![txSeq + 1] = Verdict(r)]
                /\ stagedBy' = IF r.write_log # write_log
                               THEN stagedBy \cup {txSeq + 1} ELSE stagedBy
                /\ blockAcc' = IF Verdict(r) = "accepted"
                               THEN RefApply(blockAcc, tx_bytes.code.ops, 1, txSeq + 1)
                               ELSE blockAcc
    /\ txSeq' = txSeq + 1
    /\ abci' = Tail(abci)
    /\ UNCHANGED <<host, db, applied, settled, open, begun, call>>

RecvEndBlock ==
    /\ Receives("EndBlock")
    /\ reply' = Send("ok")
    /\ shell' = after_send(reply)
    /\ abci' = Tail(abci)
    /\ UNCHANGED <<host, state, history, call>>

\* The transactions that staged the entries of a block write log.
StagersOf(block_writes) ==
    {Unwrap(block_writes[k]).by : k \in {x \in Keys : IsSome(block_writes[x])}}

RecvCommitBlock ==
    /\ Receives("CommitBlock")
    /\ \E fault \in DbFaults :
         LET r == commit(fault) IN
         /\ write_log' = r.write_log
         /\ storage' = r.storage
         /\ db' = r.db
         /\ reply' = Send("root")
    /\ applied' = applied \cup StagersOf(write_log.block_writes)
    /\ settled' = txSeq
    /\ open' = FALSE
    /\ blockAcc' = [k \in Keys |-> None]
    /\ abci' = Tail(abci)
    /\ shell' = after_send(reply)
    /\ UNCHANGED <<host, gas_meter, txSeq, verdict, stagedBy, begun, call>>

\* The AbciQuery arm replies only when the path is "dry_run_tx"; with any
\* other path the reply sender goes out of scope unused.
RecvAbciQuery ==
    /\ Receives("AbciQuery")
    /\ IF Head(abci).path = "dry_run_tx"
       THEN \E tx_bytes \in TxBytes(TxCodes(0, MaxOps)) :
              /\ FreshAccounts(tx_bytes, write_log, storage)
              /\ LET r == dry_run_tx(tx_bytes) IN
                 /\ gas_meter' = r.gas_meter
                 /\ write_log' = r.write_log
                 /\ storage' = r.storage
                 /\ reply' = Send(r.value)
                 /\ shell' = after_send(reply)
       ELSE /\ reply' = IF Len(abci) > 1
                        THEN [Pending(abci[2]) EXCEPT !.rx = reply.rx]
                        ELSE Dropped
            /\ UNCHANGED <<shell, gas_meter, write_log, storage>>
    /\ abci' = Tail(abci)
    /\ UNCHANGED <<host, db, history, call>>

\* Terminate: the loop breaks and run returns Ok; there is no reply.
RecvTerminate ==
    /\ Receives("Terminate")
    /\ shell' = "stopped"
    /\ abci' = Tail(abci)
    /\ UNCHANGED <<host, reply, state, history, call>>

Next ==
    \/ \E m \in Commands : HostSend(m, MaxSessionTxs)
    \/ HostRecvReply
    \/ RecvGetInfo
    \/ RecvInitChain
    \/ RecvMempoolValidate
    \/ RecvBeginBlock
    \/ RecvApplyTx
    \/ RecvEndBlock
    \/ RecvCommitBlock
    \/ RecvAbciQuery
    \/ RecvTerminate

Spec == Init /\ [][Next]_vars

\* A session in which the host drives blocks only: BeginBlock, ApplyTx,
\* EndBlock and CommitBlock, in any order and number.
BlockCommands ==
    {m \in Commands : m.type \in {"BeginBlock", "ApplyTx", "EndBlock", "CommitBlock"}}

NextBlock ==
    \/ \E m \in BlockCommands : HostSend(m, MaxTxs)
    \/ HostRecvReply
    \/ RecvBeginBlock
    \/ RecvApplyTx
    \/ RecvEndBlock
    \/ RecvCommitBlock

SpecBlock == Init /\ [][NextBlock]_vars

\* A session in which the host may die while a command is in flight.
NextCrash ==
    \/ Next
    \/ \E q \in {<<>>} \cup {<<m>> : m \in Commands} : HostCrash(q)

SpecCrash == Init /\ [][NextCrash]_vars

----------------------------------------------------------------------------
(* Operations of the storage layer called on their own.                    *)

\* Everything of the shell and of its host.
shell_vars == <<shell, abci, host, reply, state, history>>

\* The DBs read_last_block may find: each pointer and each row of every
\* height is there or not.
RowSets ==
    [ root        : {None, Some(merkle_root(StorageInit.tree))},
      store       : {None, Some(StorageInit.tree)},
      hash        : {None, Some("h1")},
      address_gen : {None, Some("seed")},
      subspace    : {[k \in Keys |-> None], StorageInit.subspaces} ]
RowDbs ==
    [ chain_id : {None, Some("chain")},
      height   : {None} \cup {Some(h) : h \in Heights},
      rows     : [Heights -> RowSets] ]

InitReadLast ==
    /\ ShellInit
    /\ call \in {[fn |-> "read_last_block", stage |-> "ready", arg |-> d,
                  ret |-> [ok |-> TRUE, state |-> None]] : d \in RowDbs}

CallReadLastBlock ==
    /\ call.fn = "read_last_block"
    /\ call.stage = "ready"
    /\ call' = [call EXCEPT !.stage = "done", !.ret = read_last_block(call.arg)]
    /\ UNCHANGED shell_vars

NextReadLast == CallReadLastBlock

SpecReadLast == InitReadLast /\ [][NextReadLast]_vars

----------------------------------------------------------------------------
(* Prefix iteration over the subspace rows of a block (storage/rocksdb.rs). *)

\* The byte '/' that separates the segments of a key.
Sep == 47

\* The bytes of the segments: the byte before the separator ('.') and a
\* byte after it ('0').
SegBytes == {Sep - 1, Sep + 1}

\* Byte strings of length 1..n over S.
RECURSIVE StringsUpTo(_, _)
StringsUpTo(S, n) ==
    IF n = 0 THEN {}
    ELSE LET shorter == StringsUpTo(S, n - 1) IN
         {<<x>> : x \in S} \cup shorter
             \cup {Append(q, x) : q \in {y \in shorter : Len(y) = n - 1}, x \in S}

\* Key: a non-empty sequence of non-empty segments without the separator.
Segments == StringsUpTo(SegBytes, MaxSegLen)
StorageKeys == StringsUpTo(Segments, MaxSegs)

\* Key::to_string: the segments joined by the separator.
RECURSIVE KeyToString(_)
KeyToString(key) ==
    IF Len(key) = 1 THEN key[1]
    ELSE key[1] \o <<Sep>> \o KeyToString(Tail(key))

\* str::split('/'): the pieces between the separators, empty ones included.
RECURSIVE Split(_)
Split(str) ==
    IF \A i \in 1 .. Len(str) : str[i] # Sep THEN <<str>>
    ELSE LET i == CHOOSE j \in 1 .. Len(str) :
                      str[j] = Sep /\ \A l \in 1 .. (j - 1) : str[l] # Sep
         IN  <<SubSeq(str, 1, i - 1)>> \o Split(SubSeq(str, i + 1, Len(str)))

\* Ord of str: byte-wise lexicographic, a proper prefix first.
RECURSIVE StrLess(_, _)
StrLess(a, b) ==
    IF b = <<>> THEN FALSE
    ELSE IF a = <<>> THEN TRUE
    ELSE IF a[1] # b[1] THEN a[1] < b[1]
    ELSE StrLess(Tail(a), Tail(b))

\* Ord of [&str]: segment-wise lexicographic, a proper prefix first.
RECURSIVE VecLess(_, _)
VecLess(a, b) ==
    IF b = <<>> THEN FALSE
    ELSE IF a = <<>> THEN TRUE
    ELSE IF a[1] # b[1] THEN StrLess(a[1], b[1])
    ELSE VecLess(Tail(a), Tail(b))

\* key_comparator on two paths of the same height: the paths are split at
\* the separator and the segments after the height are compared.  The
\* paths here are those under `<height>/subspace/`, given from there on.
key_comparator_less(a, b) == VecLess(Split(a), Split(b))

\* The rows in comparator order (the order the DB iterates them in).
RECURSIVE SortRows(_)
SortRows(rows) ==
    IF rows = {} THEN <<>>
    ELSE LET first == CHOOSE r \in rows :
                          \A o \in rows \ {r} : key_comparator_less(r.path, o.path)
         IN  <<first>> \o SortRows(rows \ {first})

\* The upper bound of iter_prefix: the prefix with its last byte plus one.
upper_prefix(prefix) ==
    SubSeq(prefix, 1, Len(prefix) - 1) \o <<prefix[Len(prefix)] + 1>>

\* RocksDB::iter_prefix, then PersistentPrefixIterator::next to the end:
\* the DB is sought to the prefix and iterated in comparator order up to
\* the upper bound (not included); every row is yielded with the DB prefix
\* stripped from its key and the gas key.len() + val.len().
iter_prefix(rows, prefix) ==
    LET from == KeyToString(prefix)
        to == upper_prefix(from)
        inside == {r \in rows : /\ ~key_comparator_less(r.path, from)
                                /\ key_comparator_less(r.path, to)}
        sorted == SortRows(inside)
    IN  [i \in 1 .. Len(sorted) |->
            [key |-> sorted[i].path, val |-> sorted[i].val,
             gas |-> Len(sorted[i].path) + Len(sorted[i].val)]]

\* The values stored: empty bytes and one byte.
StoredValues == {<<>>, <<Sep + 1>>}

\* The subspace rows of a committed block: at most MaxStored keys, each
\* with its value, under the path Storage::commit wrote it at.
RECURSIVE SubsetsUpTo(_, _)
SubsetsUpTo(S, n) ==
    IF n = 0 THEN {{}}
    ELSE LET smaller == SubsetsUpTo(S, n - 1) IN
         smaller \cup {q \cup {x} : q \in smaller, x \in S}
SubspaceRows ==
    UNION {{ {[key |-> k, path |-> KeyToString(k), val |-> f[k]] : k \in ks}
             : f \in [ks -> StoredValues] }
           : ks \in SubsetsUpTo(StorageKeys, MaxStored)}

InitIter ==
    /\ ShellInit
    /\ call \in {[fn |-> "iter_prefix", stage |-> "ready",
                  arg |-> [rows |-> rows, prefix |-> prefix], ret |-> <<>>]
                 : rows \in SubspaceRows, prefix \in StorageKeys}

CallIterPrefix ==
    /\ call.fn = "iter_prefix"
    /\ call.stage = "ready"
    /\ call' = [call EXCEPT !.stage = "done",
                            !.ret = iter_prefix(call.arg.rows, call.arg.prefix)]
    /\ UNCHANGED shell_vars

NextIter == CallIterPrefix

SpecIter == InitIter /\ [][NextIter]_vars

----------------------------------------------------------------------------
(* Storage operations with their gas (tests of storage/mod.rs).            *)

\* The keys of the storage tests: "0", "0." and "0/0".
CrudKeys ==
    { <<<<Sep + 1>>>>, <<<<Sep + 1, Sep - 1>>>>, <<<<Sep + 1>>, <<Sep + 1>>>> }

\* Key::len: the length of the key's string.
key_len(k) == Len(KeyToString(k))

\* storage::open on an empty directory: no genesis writes, nothing stored.
storage_open ==
    [StorageInit EXCEPT !.tree = [k \in CrudKeys |-> None],
                        !.subspaces = [k \in CrudKeys |-> None]]

\* Storage::has_key: whether the key is stored, and the gas.
storage_has_key(st, k) ==
    [found |-> IsSome(storage_read(st, k)), gas |-> key_len(k)]

\* A read that charges for the key alone.
storage_read_gas_key_only(st, k) ==
    [value |-> storage_read(st, k), gas |-> key_len(k)]

\* Storage::read with its gas: the key, and the value when there is one.
storage_read_gas(st, k) ==
    LET v == storage_read(st, k) IN
    [value |-> v,
     gas |-> IF IsSome(v) THEN key_len(k) + Len(Unwrap(v)) ELSE key_len(k)]

\* No query of the storage has been made since the last update.
NoQuery == [op |-> "none", key |-> <<>>, found |-> FALSE, value |-> None, gas |-> 0]

\* call.last[k]: the last update of key k, None before any write and after
\* a delete, Some(v) after a write of v.
InitCrud ==
    /\ shell = "recv"
    /\ abci = <<>>
    /\ host = "idle"
    /\ reply = NoReply
    /\ storage = storage_open
    /\ db = DBInit
    /\ gas_meter = GasDefault
    /\ write_log = WriteLogDefault
    /\ txSeq = 0
    /\ verdict = [t \in TxIds |-> "none"]
    /\ stagedBy = {}
    /\ applied = {}
    /\ settled = 0
    /\ open = FALSE
    /\ begun = FALSE
    /\ blockAcc = [k \in Keys |-> None]
    /\ call = [fn |-> "storage", stage |-> "ready",
               last |-> [k \in CrudKeys |-> None], ret |-> NoQuery]

crud_unchanged ==
    UNCHANGED <<shell, abci, host, reply, db, gas_meter, write_log, history>>

CallWrite(k, v) ==
    /\ call.fn = "storage"
    /\ storage' = storage_write(storage, k, v)
    /\ call' = [call EXCEPT !.last[k] = Some(v), !.ret = NoQuery]
    /\ crud_unchanged

CallDelete(k) ==
    /\ call.fn = "storage"
    /\ storage' = storage_delete(storage, k)
    /\ call' = [call EXCEPT !.last[k] = None, !.ret = NoQuery]
    /\ crud_unchanged

CallHasKey(k) ==
    /\ call.fn = "storage"
    /\ LET r == storage_has_key(storage, k) IN
       call' = [call EXCEPT !.ret = [NoQuery EXCEPT !.op = "has_key", !.key = k,
                                                    !.found = r.found, !.gas = r.gas]]
    /\ UNCHANGED storage
    /\ crud_unchanged

CallRead(k) ==
    /\ call.fn = "storage"
    /\ LET r == storage_read_gas(storage, k) IN
       call' = [call EXCEPT !.ret = [NoQuery EXCEPT !.op = "read", !.key = k,
                                                    !.value = r.value, !.gas = r.gas]]
    /\ UNCHANGED storage
    /\ crud_unchanged

NextCrud ==
    \/ \E k \in CrudKeys, v \in StoredValues : CallWrite(k, v)
    \/ \E k \in CrudKeys : CallDelete(k)
    \/ \E k \in CrudKeys : CallHasKey(k)
    \/ \E k \in CrudKeys : CallRead(k)

SpecCrud == InitCrud /\ [][NextCrud]_vars

----------------------------------------------------------------------------
(* The transaction environment of the guest (vm_env/src/imports.rs).       *)

\* The types T the guest reads and writes values as: the unit type, whose
\* Borsh encoding is empty, and u8, whose encoding is one byte.
GuestTypes == {"unit", "u8"}

\* The values of a type.
GuestValues(T) ==
    IF T = "unit" THEN {[t |-> "unit", v |-> <<>>]}
    ELSE {[t |-> "u8", v |-> <<Sep + 1>>]}

\* BorshSerialize::serialize
borsh_serialize(val) == val.v

\* BorshDeserialize::try_from_slice(..).ok(): the slice must hold exactly
\* the bytes of one value of the type.
try_from_slice(T, slice) ==
    IF T = "unit"
    THEN IF slice = <<>> THEN Some([t |-> "unit", v |-> <<>>]) ELSE None
    ELSE IF Len(slice) = 1 THEN Some([t |-> "u8", v |-> slice]) ELSE None

\* HostEnvResult: Success is 1, Fail is -1.
HostEnvResult_is_fail(int) == int = -1
HostEnvResult_is_success(int) == int = 1

\* A host read that reports an empty value as not present.
anoma_tx_read_empty_absent(wl, st, k) ==
    LET v == wl_read(wl, st, k) IN
    IF IsSome(v) /\ Unwrap(v) # <<>>
    THEN [size |-> Len(Unwrap(v)), bytes |-> Unwrap(v)]
    ELSE [size |-> -1, bytes |-> <<>>]

\* anoma_tx_read: the value is written to the result buffer and its size
\* returned (can be 0), or -1 if the key is not present.
anoma_tx_read(wl, st, k) ==
    LET v == wl_read(wl, st, k) IN
    IF IsSome(v) THEN [size |-> Len(Unwrap(v)), bytes |-> Unwrap(v)]
    ELSE [size |-> -1, bytes |-> <<>>]

\* anoma_tx_has_key: 1 if the key is present, -1 otherwise.
anoma_tx_has_key(wl, st, k) == IF IsSome(wl_read(wl, st, k)) THEN 1 ELSE -1

\* tx::read
tx_read(T, wl, st, k) ==
    LET r == anoma_tx_read(wl, st, k) IN
    [size |-> r.size,
     result |-> IF HostEnvResult_is_fail(r.size) THEN None
                ELSE try_from_slice(T, SubSeq(r.bytes, 1, r.size))]

\* tx::has_key
tx_has_key(wl, st, k) == HostEnvResult_is_success(anoma_tx_has_key(wl, st, k))

\* No result of a guest call is held.
NoGuestResult ==
    [op |-> "none", key |-> "", type |-> "", size |-> 0, result |-> None,
     found |-> FALSE]

\* The environment of a transaction under test: an empty storage and an
\* empty write log.  call.last[k] is the last update of key k by the guest:
\* None before any write and after a delete, Some(bytes) after a write.
InitVmEnv ==
    /\ shell = "recv"
    /\ abci = <<>>
    /\ host = "idle"
    /\ reply = NoReply
    /\ storage = [StorageInit EXCEPT !.tree = [k \in Keys |-> None],
                                     !.subspaces = [k \in Keys |-> None]]
    /\ db = DBInit
    /\ gas_meter = GasDefault
    /\ write_log = WriteLogDefault
    /\ txSeq = 0
    /\ verdict = [t \in TxIds |-> "none"]
    /\ stagedBy = {}
    /\ applied = {}
    /\ settled = 0
    /\ open = FALSE
    /\ begun = FALSE
    /\ blockAcc = [k \in Keys |-> None]
    /\ call = [fn |-> "vm_env", stage |-> "ready",
               last |-> [k \in Keys |-> None], ret |-> NoGuestResult]

vm_env_unchanged ==
    UNCHANGED <<shell, abci, host, reply, storage, db, gas_meter, history>>

\* tx::write: the value is serialized and handed to anoma_tx_write, which
\* stages it in the write log.
GuestWrite(k, val) ==
    /\ call.fn = "vm_env"
    /\ write_log' = wl_write(write_log, k, borsh_serialize(val))
    /\ call' = [call EXCEPT !.last[k] = Some(borsh_serialize(val)),
                            !.ret = NoGuestResult]
    /\ vm_env_unchanged

\* tx::delete
GuestDelete(k) ==
    /\ call.fn = "vm_env"
    /\ write_log' = wl_delete(write_log, k, <<>>)
    /\ call' = [call EXCEPT !.last[k] = None, !.ret = NoGuestResult]
    /\ vm_env_unchanged

\* tx::read::<T>
GuestRead(T, k) ==
    /\ call.fn = "vm_env"
    /\ LET r == tx_read(T, write_log, storage, k) IN
       call' = [call EXCEPT !.ret = [NoGuestResult EXCEPT
                    !.op = "read", !.key = k, !.type = T,
                    !.size = r.size, !.result = r.result]]
    /\ UNCHANGED write_log
    /\ vm_env_unchanged

\* tx::has_key
GuestHasKey(k) ==
    /\ call.fn = "vm_env"
    /\ call' = [call EXCEPT !.ret = [NoGuestResult EXCEPT
                    !.op = "has_key", !.key = k,
                    !.found = tx_has_key(write_log, storage, k)]]
    /\ UNCHANGED write_log
    /\ vm_env_unchanged

\* The transaction ends accepted and the next one runs: its writes are
\* merged into the block's.
GuestNextTx ==
    /\ call.fn = "vm_env"
    /\ write_log' = commit_tx(write_log)
    /\ call' = [call EXCEPT !.ret = NoGuestResult]
    /\ vm_env_unchanged

NextVmEnv ==
    \/ \E k \in Keys, T \in GuestTypes : \E val \in GuestValues(T) : GuestWrite(k, val)
    \/ \E k \in Keys : GuestDelete(k)
    \/ \E k \in Keys, T \in GuestTypes : GuestRead(T, k)
    \/ \E k \in Keys : GuestHasKey(k)
    \/ GuestNextTx

SpecVmEnv == InitVmEnv /\ [][NextVmEnv]_vars

----------------------------------------------------------------------------
(* The table of prefix iterators of one WASM run (shared/src/vm/prefix_iter.rs). *)

\* The items an iterator put in the table still has to yield.
IterItems == {"x", "y"}
IterLen == 2

\* The WASM runs followed, each with its own table.
IterRuns == 2
PrefixIters == SeqsUpTo(IterItems, IterLen)

\* The ids a guest may call next on: those issued and some never issued.
IterIds == 0 .. (MaxIters + 1)

\* A next_id that hands the same id out again.
next_id_same(id) == id

\* PrefixIteratorId::next_id
next_id(id) == id + 1

\* PrefixIterators::default
PrefixIteratorsDefault == [index |-> 0, iterators |-> <<>>]

\* HashMap::insert
map_insert(map, k, v) ==
    [x \in DOMAIN map \cup {k} |-> IF x = k THEN v ELSE map[x]]

\* PrefixIterators::insert: the new table and the id returned.
iterators_insert(table, iter) ==
    LET id == table.index IN
    [table |-> [index |-> next_id(id),
                iterators |-> map_insert(table.iterators, id, iter)],
     id |-> id]

\* PrefixIterators::next: the new table and the item returned.
iterators_next(table, id) ==
    IF id \in DOMAIN table.iterators /\ table.iterators[id] # <<>>
    THEN [table |-> [table EXCEPT !.iterators[id] = Tail(@)],
          item |-> Some(Head(table.iterators[id]))]
    ELSE [table |-> table, item |-> None]

\* No call on the table has returned yet.
NoIterResult == [op |-> "none", id |-> 0, item |-> None]

\* call.table is the table of the run call.run; call.issued is the sequence of ids
\* insert has returned in this run, call.given[i] the iterator the i-th
\* insert was called with, call.taken[i] the number of items next has
\* yielded from it.
InitIters ==
    /\ ShellInit
    /\ call = [fn |-> "prefix_iterators", stage |-> "ready",
               table |-> PrefixIteratorsDefault, run |-> 1,
               issued |-> <<>>, given |-> <<>>, taken |-> <<>>,
               ret |-> NoIterResult]

ItersInsert(iter) ==
    /\ call.fn = "prefix_iterators"
    /\ Len(call.issued) < MaxIters
    /\ LET r == iterators_insert(call.table, iter) IN
       call' = [call EXCEPT !.table = r.table,
                            !.issued = Append(@, r.id),
                            !.given = Append(@, iter),
                            !.taken = Append(@, 0),
                            !.ret = [op |-> "insert", id |-> r.id, item |-> None]]
    /\ UNCHANGED shell_vars

ItersNext(id) ==
    /\ call.fn = "prefix_iterators"
    /\ LET r == iterators_next(call.table, id) IN
       call' = [call EXCEPT !.table = r.table,
                            !.taken = [i \in DOMAIN @ |->
                                          IF call.issued[i] = id /\ IsSome(r.item)
                                          THEN @[i] + 1 ELSE @[i]],
                            !.ret = [op |-> "next", id |-> id, item |-> r.item]]
    /\ UNCHANGED shell_vars

\* The run ends and the table is dropped; the next run gets a fresh one.
ItersNewRun ==
    /\ call.fn = "prefix_iterators"
    /\ call.run < IterRuns
    /\ call' = [call EXCEPT !.table = PrefixIteratorsDefault, !.run = @ + 1,
                            !.issued = <<>>, !.given = <<>>, !.taken = <<>>,
                            !.ret = NoIterResult]
    /\ UNCHANGED shell_vars

NextIters ==
    \/ \E iter \in PrefixIters : ItersInsert(iter)
    \/ \E id \in IterIds : ItersNext(id)
    \/ ItersNewRun

SpecIters == InitIters /\ [][NextIters]_vars

----------------------------------------------------------------------------
(* Handles to the host structures of a run (shared/src/vm/mod.rs,           *)
(* tests/src/vm_host_env/tx.rs).                                            *)

\* The host environments (write log, gas meter, iterator table, verifier
\* set) a run can be given, and the threads, each with its own ENV.
HostEnvs == {"env1", "env2"}
HostThreads == {"t1", "t2"}

\* What a use of a handle finds: MutEnvHostWrapper::get turns the raw
\* pointer into a mutable reference whatever has become of the structure
\* wrapped.  When it is gone the behaviour is undefined.
handle_get(target_state) ==
    IF target_state = "alive" THEN {"ok"} ELSE {"ok", "garbage", "crash"}

NoHostCall == [op |-> "none", thread |-> "", env |-> "", target |-> "", outcome |-> ""]

\* call.envs[e]: the environment e is not created yet, owned by a running
\* invocation, or dropped with the invocation that owned it.
\* call.ENV[t]: the handles stored in the thread-local ENV of thread t.
InitHostEnv ==
    /\ ShellInit
    /\ call = [fn |-> "host_env", stage |-> "ready",
               envs |-> [e \in HostEnvs |-> "none"],
               ENV |-> [t \in HostThreads |-> None],
               ret |-> NoHostCall]

\* TestTxEnv::default: an invocation gets its host structures.
NewTestTxEnv(e) ==
    /\ call.fn = "host_env"
    /\ call.envs[e] = "none"
    /\ call' = [call EXCEPT !.envs[e] = "alive", !.ret = NoHostCall]
    /\ UNCHANGED shell_vars

\* init_tx_env: the structures are wrapped (MutEnvHostWrapper::new) and the
\* handles stored in the ENV of the calling thread, with lifetime 'static.
init_tx_env(t, e) ==
    /\ call.fn = "host_env"
    /\ call.envs[e] = "alive"
    /\ call' = [call EXCEPT !.ENV[t] = Some(e), !.ret = NoHostCall]
    /\ UNCHANGED shell_vars

\* A host function of native_host_fn!: the handles in ENV are used.
native_host_fn(t) ==
    /\ call.fn = "host_env"
    /\ IsSome(call.ENV[t])
    /\ LET e == Unwrap(call.ENV[t]) IN
       \E outcome \in handle_get(call.envs[e]) :
           call' = [call EXCEPT !.ret = [op |-> "host_fn", thread |-> t, env |-> e,
                                         target |-> call.envs[e],
                                         outcome |-> outcome]]
    /\ UNCHANGED shell_vars

\* The invocation returns and its host structures are dropped; nothing
\* takes the handles out of ENV.
DropTestTxEnv(e) ==
    /\ call.fn = "host_env"
    /\ call.envs[e] = "alive"
    /\ call' = [call EXCEPT !.envs[e] = "dropped", !.ret = NoHostCall]
    /\ UNCHANGED shell_vars

NextHostEnv ==
    \/ \E e \in HostEnvs : NewTestTxEnv(e)
    \/ \E t \in HostThreads, e \in HostEnvs : init_tx_env(t, e)
    \/ \E t \in HostThreads : native_host_fn(t)
    \/ \E e \in HostEnvs : DropTestTxEnv(e)

SpecHostEnv == InitHostEnv /\ [][NextHostEnv]_vars

----------------------------------------------------------------------------
(* Addresses (shared/src/types/address.rs).  Strings and byte vectors are   *)
(* sequences of bytes.                                                      *)

HASH_LEN == 40

RECURSIVE SumBytes(_)
SumBytes(bytes) == IF bytes = <<>> THEN 0 ELSE Head(bytes) + SumBytes(Tail(bytes))

\* Sha256: a 32-byte digest that is a function of the bytes hashed (here of
\* their sum and number, so that digests collide more often than SHA-256's).
Sha256(bytes) ==
    LET d == (SumBytes(bytes) + 31 * Len(bytes)) % 256 IN
    [i \in 1 .. 32 |-> (d + 7 * i) % 256]

\* The upper-case hex digit of a nibble.
HexDigit(n) == IF n < 10 THEN 48 + n ELSE 55 + n

\* format!("{:.width$X}", digest, width): the first `width` hex digits.
UpperHex(digest, width) ==
    [i \in 1 .. width |->
        LET byte == digest[(i + 1) \div 2] IN
        IF i % 2 = 1 THEN HexDigit(byte \div 16) ELSE HexDigit(byte % 16)]

\* Borsh of a u32: four bytes, little endian.
borsh_u32(n) ==
    <<n % 256, (n \div 256) % 256, (n \div 65536) % 256, (n \div 16777216) % 256>>

\* Borsh of a String: its length, then its bytes.
borsh_string(str) == borsh_u32(Len(str)) \o str

\* EstablishedAddressGen::new
address_gen_new(seed) == [last_hash |-> seed]

\* A generate_address that leaves the generator as it was.
generate_address_keeps_hash(gen, rng_source) ==
    LET gen_bytes == borsh_string(gen.last_hash)
        hash == UpperHex(Sha256(gen_bytes \o rng_source), HASH_LEN)
    IN  [gen |-> gen,
         address |-> [kind |-> "Established", hash |-> hash]]

\* EstablishedAddressGen::generate_address: the generator afterwards and the
\* address returned.
generate_address(gen, rng_source) ==
    LET gen_bytes == borsh_string(gen.last_hash)
        hash == UpperHex(Sha256(gen_bytes \o rng_source), HASH_LEN)
    IN  [gen |-> [last_hash |-> hash],
         address |-> [kind |-> "Established", hash |-> hash]]

\* Seeds and sources of randomness, as bytes.
GenSeeds == {<<83>>, <<83, 101>>}
RngSources == {<<>>, <<1>>, <<2, 3>>}

\* Two generators: call.gen[i] is the generator, call.seed[i] the seed it
\* was created with, call.fed[i] the rng_source values it was fed,
\* call.out[i] the addresses it returned.
InitAddrGen ==
    /\ ShellInit
    /\ call \in {[fn |-> "address_gen", stage |-> "ready",
                  seed |-> <<s1, s2>>,
                  gen |-> <<address_gen_new(s1), address_gen_new(s2)>>,
                  fed |-> <<<<>>, <<>>>>, out |-> <<<<>>, <<>>>>]
                 : s1 \in GenSeeds, s2 \in GenSeeds}

CallGenerateAddress(i, rng_source) ==
    /\ call.fn = "address_gen"
    /\ Len(call.fed[i]) < MaxGens
    /\ LET r == generate_address(call.gen[i], rng_source) IN
       call' = [call EXCEPT !.gen[i] = r.gen,
                            !.fed[i] = Append(@, rng_source),
                            !.out[i] = Append(@, r.address)]
    /\ UNCHANGED shell_vars

NextAddrGen == \E i \in 1 .. 2, rng_source \in RngSources : CallGenerateAddress(i, rng_source)

SpecAddrGen == InitAddrGen /\ [][NextAddrGen]_vars

\* Bech32 human-readable part "a" and variant of an encoded address.
ADDRESS_HRP == <<97>>
ADDRESS_BECH32_VARIANT == "Bech32m"

\* Borsh of an Address: the tag of the variant (and of the variant of
\* ImplicitAddress), then the hash as a String.
address_try_to_vec(address) ==
    IF address.kind = "Established" THEN <<0>> \o borsh_string(address.hash)
    ELSE <<1, 0>> \o borsh_string(address.hash)

\* The bit i (1 first) of a sequence of `width`-bit words, most significant
\* bit of each word first; 0 past the end.
BitAt(words, width, i) ==
    IF i > width * Len(words) THEN 0
    ELSE (words[((i - 1) \div width) + 1] \div 2 ^ (width - 1 - ((i - 1) % width))) % 2

\* The word of `width` bits that starts at bit i.
WordAt(words, from_width, i, width) ==
    LET RECURSIVE Acc(_)
        Acc(j) == IF j = width THEN 0
                  ELSE BitAt(words, from_width, i + j) * 2 ^ (width - 1 - j) + Acc(j + 1)
    IN  Acc(0)

\* A to_base32 that drops the bits of an incomplete last group.
to_base32_truncating(bytes) ==
    [g \in 1 .. ((8 * Len(bytes)) \div 5) |-> WordAt(bytes, 8, 5 * (g - 1) + 1, 5)]

\* ToBase32::to_base32: the bits regrouped by five, the last group padded
\* with zeros.
to_base32(bytes) ==
    [g \in 1 .. ((8 * Len(bytes) + 4) \div 5) |-> WordAt(bytes, 8, 5 * (g - 1) + 1, 5)]

\* FromBase32::from_base32: the bits regrouped by eight; more than four
\* bits of padding, or a padding bit set, is an error.
from_base32(data) ==
    LET nbits == 5 * Len(data)
        nbytes == nbits \div 8
        padding == {8 * nbytes + j : j \in 1 .. (nbits % 8)}
    IN  IF nbits % 8 >= 5 \/ \E i \in padding : BitAt(data, 5, i) = 1
        THEN [ok |-> FALSE, bytes |-> <<>>]
        ELSE [ok |-> TRUE,
              bytes |-> [b \in 1 .. nbytes |-> WordAt(data, 5, 8 * (b - 1) + 1, 8)]]

\* bech32::encode: the string, given by its parts (the checksum is valid
\* and tells the variant).
bech32_encode(hrp, data, variant) == [hrp |-> hrp, data |-> data, variant |-> variant]

NoAddress == [kind |-> "none", hash |-> <<>>]

\* Borsh String::deserialize followed by the check of try_from_slice that
\* no byte is left.
borsh_string_from_slice(bytes) ==
    IF Len(bytes) < 4 THEN [ok |-> FALSE, str |-> <<>>]
    ELSE LET len == bytes[1] + 256 * bytes[2] + 65536 * bytes[3] + 16777216 * bytes[4] IN
         IF Len(bytes) - 4 # len THEN [ok |-> FALSE, str |-> <<>>]
         ELSE [ok |-> TRUE, str |-> SubSeq(bytes, 5, Len(bytes))]

\* BorshDeserialize::try_from_slice for Address
address_try_from_slice(bytes) ==
    IF bytes = <<>> THEN [ok |-> FALSE, address |-> NoAddress]
    ELSE IF bytes[1] = 0
    THEN LET s == borsh_string_from_slice(Tail(bytes)) IN
         IF s.ok THEN [ok |-> TRUE, address |-> [kind |-> "Established", hash |-> s.str]]
         ELSE [ok |-> FALSE, address |-> NoAddress]
    ELSE IF bytes[1] = 1 /\ Len(bytes) >= 2 /\ bytes[2] = 0
    THEN LET s == borsh_string_from_slice(Tail(Tail(bytes))) IN
         IF s.ok THEN [ok |-> TRUE, address |-> [kind |-> "Implicit", hash |-> s.str]]
         ELSE [ok |-> FALSE, address |-> NoAddress]
    ELSE [ok |-> FALSE, address |-> NoAddress]

\* Address::encode
address_encode(address) ==
    bech32_encode(ADDRESS_HRP, to_base32(address_try_to_vec(address)),
                  ADDRESS_BECH32_VARIANT)

\* Address::decode, on a string bech32::decode accepts.
address_decode(string) ==
    IF string.hrp # ADDRESS_HRP
    THEN [ok |-> FALSE, err |-> "UnexpectedBech32Prefix", address |-> NoAddress]
    ELSE IF string.variant # ADDRESS_BECH32_VARIANT
    THEN [ok |-> FALSE, err |-> "UnexpectedBech32Variant", address |-> NoAddress]
    ELSE LET bytes == from_base32(string.data) IN
    IF ~bytes.ok
    THEN [ok |-> FALSE, err |-> "DecodeBase32", address |-> NoAddress]
    ELSE LET r == address_try_from_slice(bytes.bytes) IN
    IF ~r.ok
    THEN [ok |-> FALSE, err |-> "InvalidAddressEncoding", address |-> NoAddress]
    ELSE IF Len(r.address.hash) # HASH_LEN
    THEN [ok |-> FALSE, err |-> "UnexpectedHashLength", address |-> NoAddress]
    ELSE [ok |-> TRUE, err |-> "", address |-> r.address]

\* The hashes of the addresses encoded: hex strings of 39, 40 and 41
\* characters, those generate_address returns among them.
DigestInputs == {<<b>> : b \in 0 .. 15}
AddressHashes ==
    {UpperHex(Sha256(x), n) : x \in DigestInputs, n \in {HASH_LEN - 1, HASH_LEN, HASH_LEN + 1}}
        \cup {generate_address(address_gen_new(s), r).address.hash
                  : s \in GenSeeds, r \in RngSources}
Addresses == [kind : {"Established", "Implicit"}, hash : AddressHashes]

InitAddress ==
    /\ ShellInit
    /\ call \in {[fn |-> "address", stage |-> "ready", arg |-> a,
                  ret |-> [ok |-> FALSE, err |-> "", address |-> NoAddress]]
                 : a \in Addresses}

CallEncodeDecode ==
    /\ call.fn = "address"
    /\ call.stage = "ready"
    /\ call' = [call EXCEPT !.stage = "done",
                            !.ret = address_decode(address_encode(call.arg))]
    /\ UNCHANGED shell_vars

NextAddress == CallEncodeDecode

SpecAddress == InitAddress /\ [][NextAddress]_vars

----------------------------------------------------------------------------
(* The wire types and their Protobuf encoding (apps/src/lib/proto/types.rs; *)
(* the generated types::Tx, types::Intent and types::IntentGossipMessage    *)
(* are prost messages).                                                     *)

\* Protobuf varint of a natural number.
RECURSIVE encode_varint(_)
encode_varint(n) ==
    IF n < 128 THEN <<n>> ELSE <<128 + (n % 128)>> \o encode_varint(n \div 128)

\* The varint at the head of the bytes: its value and the bytes after it.
RECURSIVE decode_varint(_)
decode_varint(bytes) ==
    IF bytes = <<>> THEN [ok |-> FALSE, value |-> 0, rest |-> <<>>]
    ELSE IF Head(bytes) < 128 THEN [ok |-> TRUE, value |-> Head(bytes), rest |-> Tail(bytes)]
    ELSE LET r == decode_varint(Tail(bytes)) IN
         [ok |-> r.ok, value |-> (Head(bytes) - 128) + 128 * r.value, rest |-> r.rest]

\* Wire types: varint and length-delimited.
WireVarint == 0
WireLen == 2

\* The key of a field.
encode_key(num, wire) == encode_varint(8 * num + wire)

\* A length-delimited field and a varint field.
encode_len_field(num, payload) ==
    encode_key(num, WireLen) \o encode_varint(Len(payload)) \o payload
encode_varint_field(num, n) == encode_key(num, WireVarint) \o encode_varint(n)

\* The fields of an encoded message, in order: [num, wire, value, payload];
\* a key or a length that runs past the end, or a wire type that is
\* neither, is a DecodeError.
RECURSIVE decode_fields(_)
decode_fields(bytes) ==
    IF bytes = <<>> THEN [ok |-> TRUE, fields |-> <<>>]
    ELSE LET k == decode_varint(bytes) IN
    IF ~k.ok \/ k.value \div 8 = 0 THEN [ok |-> FALSE, fields |-> <<>>]
    ELSE LET num == k.value \div 8
             wire == k.value % 8
             v == decode_varint(k.rest)
         IN
    IF wire = WireVarint
    THEN IF ~v.ok THEN [ok |-> FALSE, fields |-> <<>>]
         ELSE LET more == decode_fields(v.rest) IN
              [ok |-> more.ok,
               fields |-> <<[num |-> num, wire |-> wire, value |-> v.value,
                             payload |-> <<>>]>> \o more.fields]
    ELSE IF wire = WireLen
    THEN IF ~v.ok \/ v.value > Len(v.rest) THEN [ok |-> FALSE, fields |-> <<>>]
         ELSE LET more == decode_fields(SubSeq(v.rest, v.value + 1, Len(v.rest))) IN
              [ok |-> more.ok,
               fields |-> <<[num |-> num, wire |-> wire, value |-> 0,
                             payload |-> SubSeq(v.rest, 1, v.value)]>> \o more.fields]
    ELSE [ok |-> FALSE, fields |-> <<>>]

\* prost_types::Timestamp: seconds = 1, nanos = 2; a field that holds the
\* default is not encoded.
TimestampDefault == [seconds |-> 0, nanos |-> 0]
encode_Timestamp(t) ==
    (IF t.seconds # 0 THEN encode_varint_field(1, t.seconds) ELSE <<>>)
        \o (IF t.nanos # 0 THEN encode_varint_field(2, t.nanos) ELSE <<>>)

\* Message::merge of a Timestamp: the fields decoded are put over those of t.
RECURSIVE merge_Timestamp(_, _)
merge_Timestamp(t, fields) ==
    IF fields = <<>> THEN [ok |-> TRUE, msg |-> t]
    ELSE LET f == Head(fields) IN
    IF f.num \in {1, 2} /\ f.wire # WireVarint THEN [ok |-> FALSE, msg |-> t]
    ELSE merge_Timestamp(
             IF f.num = 1 THEN [t EXCEPT !.seconds = f.value]
             ELSE IF f.num = 2 THEN [t EXCEPT !.nanos = f.value]
             ELSE t,
             Tail(fields))

\* A message field given again is merged into the one already there.
merge_Timestamp_field(opt, payload) ==
    LET p == decode_fields(payload) IN
    IF ~p.ok THEN [ok |-> FALSE, msg |-> TimestampDefault]
    ELSE merge_Timestamp(IF IsSome(opt) THEN Unwrap(opt) ELSE TimestampDefault, p.fields)

\* types::Tx { code = 1, optional data = 2, timestamp = 3 }: Message::encode.
\* An empty `code` is the default and not encoded; `data` is encoded when
\* it is Some, `timestamp` when it is Some.
encode_types_Tx(tx) ==
    (IF tx.code # <<>> THEN encode_len_field(1, tx.code) ELSE <<>>)
        \o (IF IsSome(tx.data) THEN encode_len_field(2, Unwrap(tx.data)) ELSE <<>>)
        \o (IF IsSome(tx.timestamp)
            THEN encode_len_field(3, encode_Timestamp(Unwrap(tx.timestamp))) ELSE <<>>)

TypesTxDefault == [code |-> <<>>, data |-> None, timestamp |-> None]

RECURSIVE merge_types_Tx(_, _)
merge_types_Tx(tx, fields) ==
    IF fields = <<>> THEN [ok |-> TRUE, msg |-> tx]
    ELSE LET f == Head(fields) IN
    IF f.num \in {1, 2, 3} /\ f.wire # WireLen THEN [ok |-> FALSE, msg |-> tx]
    ELSE IF f.num = 1 THEN merge_types_Tx([tx EXCEPT !.code = f.payload], Tail(fields))
    ELSE IF f.num = 2 THEN merge_types_Tx([tx EXCEPT !.data = Some(f.payload)], Tail(fields))
    ELSE IF f.num = 3
    THEN LET t == merge_Timestamp_field(tx.timestamp, f.payload) IN
         IF ~t.ok THEN [ok |-> FALSE, msg |-> tx]
         ELSE merge_types_Tx([tx EXCEPT !.timestamp = Some(t.msg)], Tail(fields))
    ELSE merge_types_Tx(tx, Tail(fields))

\* types::Tx::decode
decode_types_Tx(bytes) ==
    LET p == decode_fields(bytes) IN
    IF ~p.ok THEN [ok |-> FALSE, msg |-> TypesTxDefault]
    ELSE merge_types_Tx(TypesTxDefault, p.fields)

NoTx == [code |-> <<>>, data |-> None, timestamp |-> TimestampDefault]

\* impl TryFrom<&[u8]> for Tx, on the bytes themselves.
Tx_try_from_bytes(tx_bytes) ==
    LET tx == decode_types_Tx(tx_bytes) IN
    IF ~tx.ok THEN [ok |-> FALSE, err |-> "TxDecodingError", tx |-> NoTx]
    ELSE IF ~IsSome(tx.msg.timestamp)
    THEN [ok |-> FALSE, err |-> "NoTimestampError", tx |-> NoTx]
    ELSE [ok |-> TRUE, err |-> "",
          tx |-> [code |-> tx.msg.code, data |-> tx.msg.data,
                  timestamp |-> Unwrap(tx.msg.timestamp)]]

\* impl From<Tx> for types::Tx
types_Tx_from(tx) ==
    [code |-> tx.code, data |-> tx.data, timestamp |-> Some(tx.timestamp)]

\* A to_bytes that leaves the data out when it is empty.
Tx_to_bytes_skips_empty_data(tx) ==
    encode_types_Tx(types_Tx_from(
        [tx EXCEPT !.data = IF tx.data = Some(<<>>) THEN None ELSE tx.data]))

\* Tx::to_bytes
Tx_to_bytes(tx) == encode_types_Tx(types_Tx_from(tx))

\* The values of the fields: byte vectors (empty, one byte, more) and
\* timestamps (default fields, and a field that takes two varint bytes).
ProtoBytes == {<<>>, <<1>>, <<26, 0>>}
Timestamps == [seconds : {0, 1, 300}, nanos : {0, 5}]
Txs == [code : ProtoBytes, data : {None} \cup {Some(b) : b \in ProtoBytes},
        timestamp : Timestamps]

\* The wire transactions without a timestamp.
TypesTxsNoTimestamp ==
    [code : ProtoBytes, data : {None} \cup {Some(b) : b \in ProtoBytes},
     timestamp : {None}]

NoProtoResult == [ok |-> FALSE, err |-> "", tx |-> NoTx]

InitTxRoundTrip ==
    /\ ShellInit
    /\ call \in {[fn |-> "tx_round_trip", stage |-> "ready", arg |-> tx,
                  bytes |-> <<>>, ret |-> NoProtoResult] : tx \in Txs}

InitTxDecode ==
    /\ ShellInit
    /\ call \in {[fn |-> "tx_decode", stage |-> "ready", arg |-> tx,
                  bytes |-> <<>>, ret |-> NoProtoResult] : tx \in TypesTxsNoTimestamp}

\* Tx::try_from(tx.to_bytes())
CallTxRoundTrip ==
    /\ call.fn = "tx_round_trip"
    /\ call.stage = "ready"
    /\ call' = [call EXCEPT !.stage = "done", !.bytes = Tx_to_bytes(call.arg),
                            !.ret = Tx_try_from_bytes(Tx_to_bytes(call.arg))]
    /\ UNCHANGED shell_vars

\* types_tx.encode(&mut bytes); Tx::try_from(bytes)
CallTxDecode ==
    /\ call.fn = "tx_decode"
    /\ call.stage = "ready"
    /\ call' = [call EXCEPT !.stage = "done", !.bytes = encode_types_Tx(call.arg),
                            !.ret = Tx_try_from_bytes(encode_types_Tx(call.arg))]
    /\ UNCHANGED shell_vars

\* types::Intent { data = 1, timestamp = 2 }: Message::encode
encode_types_Intent(intent) ==
    (IF intent.data # <<>> THEN encode_len_field(1, intent.data) ELSE <<>>)
        \o (IF IsSome(intent.timestamp)
            THEN encode_len_field(2, encode_Timestamp(Unwrap(intent.timestamp))) ELSE <<>>)

TypesIntentDefault == [data |-> <<>>, timestamp |-> None]

RECURSIVE merge_types_Intent(_, _)
merge_types_Intent(intent, fields) ==
    IF fields = <<>> THEN [ok |-> TRUE, msg |-> intent]
    ELSE LET f == Head(fields) IN
    IF f.num \in {1, 2} /\ f.wire # WireLen THEN [ok |-> FALSE, msg |-> intent]
    ELSE IF f.num = 1
    THEN merge_types_Intent([intent EXCEPT !.data = f.payload], Tail(fields))
    ELSE IF f.num = 2
    THEN LET t == merge_Timestamp_field(intent.timestamp, f.payload) IN
         IF ~t.ok THEN [ok |-> FALSE, msg |-> intent]
         ELSE merge_types_Intent([intent EXCEPT !.timestamp = Some(t.msg)], Tail(fields))
    ELSE merge_types_Intent(intent, Tail(fields))

\* types::IntentGossipMessage { oneof msg { Intent intent = 1 } }: encode
encode_types_IntentGossipMessage(message) ==
    IF IsSome(message.msg)
    THEN encode_len_field(1, encode_types_Intent(Unwrap(message.msg))) ELSE <<>>

RECURSIVE merge_types_IntentGossipMessage(_, _)
merge_types_IntentGossipMessage(message, fields) ==
    IF fields = <<>> THEN [ok |-> TRUE, msg |-> message]
    ELSE LET f == Head(fields) IN
    IF f.num = 1 /\ f.wire # WireLen THEN [ok |-> FALSE, msg |-> message]
    ELSE IF f.num = 1
    THEN LET p == decode_fields(f.payload)
             i == IF p.ok
                  THEN merge_types_Intent(
                           IF IsSome(message.msg) THEN Unwrap(message.msg)
                           ELSE TypesIntentDefault, p.fields)
                  ELSE [ok |-> FALSE, msg |-> TypesIntentDefault]
         IN  IF ~i.ok THEN [ok |-> FALSE, msg |-> message]
             ELSE merge_types_IntentGossipMessage([msg |-> Some(i.msg)], Tail(fields))
    ELSE merge_types_IntentGossipMessage(message, Tail(fields))

\* types::IntentGossipMessage::decode
decode_types_IntentGossipMessage(bytes) ==
    LET p == decode_fields(bytes) IN
    IF ~p.ok THEN [ok |-> FALSE, msg |-> [msg |-> None]]
    ELSE merge_types_IntentGossipMessage([msg |-> None], p.fields)

NoIntent == [data |-> <<>>, timestamp |-> TimestampDefault]

\* An Intent -> types::Intent that leaves a timestamp of default fields out.
types_Intent_from_drops_default(intent) ==
    [data |-> intent.data,
     timestamp |-> IF intent.timestamp = TimestampDefault THEN None
                   ELSE Some(intent.timestamp)]

\* impl From<Intent> for types::Intent
types_Intent_from(intent) ==
    [data |-> intent.data, timestamp |-> Some(intent.timestamp)]

\* An Intent::try_from that takes the default for a missing timestamp.
Intent_try_from_lenient(intent) ==
    [ok |-> TRUE, err |-> "",
     intent |-> [data |-> intent.data,
                 timestamp |-> IF IsSome(intent.timestamp) THEN Unwrap(intent.timestamp)
                               ELSE TimestampDefault]]

\* impl TryFrom<types::Intent> for Intent
Intent_try_from(intent) ==
    IF ~IsSome(intent.timestamp)
    THEN [ok |-> FALSE, err |-> "NoTimestampError", intent |-> NoIntent]
    ELSE [ok |-> TRUE, err |-> "",
          intent |-> [data |-> intent.data, timestamp |-> Unwrap(intent.timestamp)]]

\* impl TryFrom<&[u8]> for IntentGossipMessage
IntentGossipMessage_try_from(intent_bytes) ==
    LET m == decode_types_IntentGossipMessage(intent_bytes) IN
    IF ~m.ok THEN [ok |-> FALSE, err |-> "IntentDecodingError", intent |-> NoIntent]
    ELSE IF ~IsSome(m.msg.msg)
    THEN [ok |-> FALSE, err |-> "NoIntentError", intent |-> NoIntent]
    ELSE Intent_try_from(Unwrap(m.msg.msg))

\* IntentGossipMessage::to_bytes (impl From<IntentGossipMessage> for
\* types::IntentGossipMessage, then encode); message is its intent.
IntentGossipMessage_to_bytes(message) ==
    encode_types_IntentGossipMessage([msg |-> Some(types_Intent_from(message.intent))])

Intents == [data : ProtoBytes, timestamp : Timestamps]
TypesIntentsNoTimestamp == [data : ProtoBytes, timestamp : {None}]

NoIntentResult == [ok |-> FALSE, err |-> "", intent |-> NoIntent]

InitIntentGossip ==
    /\ ShellInit
    /\ call \in {[fn |-> "intent_gossip_round_trip", stage |-> "ready",
                  arg |-> [intent |-> i], bytes |-> <<>>, ret |-> NoIntentResult]
                 : i \in Intents}

InitIntentConv ==
    /\ ShellInit
    /\ call \in {[fn |-> "intent_round_trip", stage |-> "ready",
                  arg |-> i, bytes |-> <<>>, ret |-> NoIntentResult] : i \in Intents}

InitIntentTryFrom ==
    /\ ShellInit
    /\ call \in {[fn |-> "intent_try_from", stage |-> "ready",
                  arg |-> i, bytes |-> <<>>, ret |-> NoIntentResult]
                 : i \in TypesIntentsNoTimestamp}

\* IntentGossipMessage::try_from(message.to_bytes())
CallIntentGossipRoundTrip ==
    /\ call.fn = "intent_gossip_round_trip"
    /\ call.stage = "ready"
    /\ call' = [call EXCEPT
           !.stage = "done",
           !.bytes = IntentGossipMessage_to_bytes(call.arg),
           !.ret = IntentGossipMessage_try_from(IntentGossipMessage_to_bytes(call.arg))]
    /\ UNCHANGED shell_vars

\* Intent::try_from(types::Intent::from(intent))
CallIntentRoundTrip ==
    /\ call.fn = "intent_round_trip"
    /\ call.stage = "ready"
    /\ call' = [call EXCEPT !.stage = "done",
                            !.ret = Intent_try_from(types_Intent_from(call.arg))]
    /\ UNCHANGED shell_vars

\* Intent::try_from(types::Intent { data, timestamp: None })
CallIntentTryFrom ==
    /\ call.fn = "intent_try_from"
    /\ call.stage = "ready"
    /\ call' = [call EXCEPT !.stage = "done", !.ret = Intent_try_from(call.arg)]
    /\ UNCHANGED shell_vars

InitProto ==
    \/ InitTxRoundTrip
    \/ InitTxDecode
    \/ InitIntentGossip
    \/ InitIntentConv
    \/ InitIntentTryFrom

NextProto ==
    \/ CallTxRoundTrip
    \/ CallTxDecode
    \/ CallIntentGossipRoundTrip
    \/ CallIntentRoundTrip
    \/ CallIntentTryFrom

SpecProto == InitProto /\ [][NextProto]_vars

----------------------------------------------------------------------------
(* The matchmaker driver (apps/src/lib/node/gossip/intent_gossiper/matchmaker.rs). *)

\* Intents, by their id.
IntentIds == {"i1", "i2"}

\* The capacity of the channel of matchmaker messages.
MmChannelCapacity == 100

\* The commands the matchmaker code may emit through its host.
MmCommands ==
    {[type |-> "InjectTx", data |-> "tx", ids |-> {}],
     [type |-> "UpdateData", data |-> "d1", ids |-> {}]}
        \cup {[type |-> "RemoveIntents", data |-> "", ids |-> {i}] : i \in IntentIds}

\* A filter: what Filter::validate answers for each intent.
Filters == [IntentIds -> {"accept", "reject", "error"}]

\* An apply_filter that accepts nothing when no filter is defined.
apply_filter_default_false(filter, intent) ==
    IF ~IsSome(filter) THEN "false"
    ELSE CASE Unwrap(filter)[intent] = "accept" -> "true"
           [] Unwrap(filter)[intent] = "reject" -> "false"
           [] OTHER -> "err"

\* Matchmaker::apply_filter: true if no filter is defined, else the answer
\* of the filter, or its error.
apply_filter(filter, intent) ==
    IF ~IsSome(filter) THEN "true"
    ELSE CASE Unwrap(filter)[intent] = "accept" -> "true"
           [] Unwrap(filter)[intent] = "reject" -> "false"
           [] OTHER -> "err"

\* IntentMempool::put: idempotent insertion under the id of the intent.
mempool_put(mempool, intent) == mempool \cup {intent}

\* IntentMempool::remove
mempool_remove(mempool, intent) == mempool \ {intent}

\* A send that puts the message ahead of those waiting.
wasm_host_send_front(queue, message) == <<message>> \o queue

\* WasmHost: Sender::try_send puts the message at the end of the channel.
wasm_host_send(queue, message) == Append(queue, message)

NoMatch == [op |-> "none", intent |-> "", result |-> "", ran |-> FALSE,
            runner |-> "", before |-> {}]

\* Matchmaker::new, with or without a filter.  call.pc tells whether the
\* matchmaker code is running; call.snap is the mempool and the state when
\* the run began, with the numbers of commands handled and emitted by then; call.emitted are the commands emitted so far, call.handled
\* those handle_mm_message has applied.
InitMm ==
    /\ ShellInit
    /\ call \in {[fn |-> "matchmaker", pc |-> "idle", filter |-> f,
                  mempool |-> {}, data |-> "d0", queue |-> <<>>,
                  injected |-> <<>>, cur |-> "",
                  snap |-> [mempool |-> {}, data |-> "d0", handled |-> 0,
                           emitted |-> 0],
                  emitted |-> <<>>, handled |-> <<>>, ret |-> NoMatch]
                 : f \in {None} \cup {Some(x) : x \in Filters}}

\* A try_match_intent that puts the intent in the mempool before it asks
\* the filter.
try_match_intent_puts_first(mm, intent) ==
    LET accepted == apply_filter(mm.filter, intent) IN
    IF accepted = "true"
    THEN [mm EXCEPT !.mempool = mempool_put(@, intent), !.pc = "running",
                    !.cur = intent,
                    !.snap = [mempool |-> mempool_put(mm.mempool, intent),
                              data |-> mm.data, handled |-> Len(mm.handled),
                              emitted |-> Len(mm.emitted)],
                    !.ret = [op |-> "try_match_intent", intent |-> intent,
                             result |-> "running", ran |-> TRUE,
                             runner |-> "", before |-> mm.mempool]]
    ELSE [mm EXCEPT !.mempool = mempool_put(@, intent),
                    !.ret = [op |-> "try_match_intent", intent |-> intent,
                             result |-> IF accepted = "false" THEN "Ok(false)"
                                        ELSE "Err(Filter)",
                             ran |-> FALSE, runner |-> "",
                             before |-> mm.mempool]]

\* Matchmaker::try_match_intent up to the call of MmRunner::run: the filter
\* is applied; an error of the filter is returned, a rejection returns
\* Ok(false); else the intent is put in the mempool and the matchmaker code
\* is run with the state, the intent and the host.
try_match_intent(mm, intent) ==
    LET accepted == apply_filter(mm.filter, intent) IN
    IF accepted = "true"
    THEN [mm EXCEPT !.mempool = mempool_put(@, intent), !.pc = "running",
                    !.cur = intent,
                    !.snap = [mempool |-> mempool_put(mm.mempool, intent),
                              data |-> mm.data, handled |-> Len(mm.handled),
                              emitted |-> Len(mm.emitted)],
                    !.ret = [op |-> "try_match_intent", intent |-> intent,
                             result |-> "running", ran |-> TRUE,
                             runner |-> "", before |-> mm.mempool]]
    ELSE [mm EXCEPT !.ret = [op |-> "try_match_intent", intent |-> intent,
                             result |-> IF accepted = "false" THEN "Ok(false)"
                                        ELSE "Err(Filter)",
                             ran |-> FALSE, runner |-> "",
                             before |-> mm.mempool]]

TryMatchIntent(intent) ==
    /\ call.fn = "matchmaker"
    /\ call.pc = "idle"
    /\ call' = try_match_intent(call, intent)
    /\ UNCHANGED shell_vars

\* The running matchmaker code calls remove_intents, inject_tx or
\* update_data of its host: the message is sent with try_send, which
\* panics when the channel is full.
MmHostCall(message) ==
    /\ call.fn = "matchmaker"
    /\ call.pc = "running"
    /\ Len(call.emitted) < MaxCmds
    /\ call' = IF Len(call.queue) >= MmChannelCapacity
               THEN [call EXCEPT !.pc = "panicked"]
               ELSE [call EXCEPT !.queue = wasm_host_send(@, message),
                                 !.emitted = Append(@, message)]
    /\ UNCHANGED shell_vars

\* A try_match_intent that returns the error of the runner.
MmRunReturn_returns_error(result) ==
    /\ call.fn = "matchmaker"
    /\ call.pc = "running"
    /\ call' = IF result = "Err"
               THEN [call EXCEPT !.pc = "idle", !.cur = "",
                                 !.ret.result = "Err(RunnerFailed)",
                                 !.ret.runner = result]
               ELSE [call EXCEPT !.pc = "idle", !.cur = "", !.ret.result = result,
                                 !.ret.runner = result]
    /\ UNCHANGED shell_vars

\* MmRunner::run returns: try_match_intent returns its result, and panics
\* (unwrap) on an error of the runner.
MmRunReturn(result) ==
    /\ call.fn = "matchmaker"
    /\ call.pc = "running"
    /\ call' = IF result = "Err"
               THEN [call EXCEPT !.pc = "panicked", !.ret.result = "panic",
                                 !.ret.runner = result]
               ELSE [call EXCEPT !.pc = "idle", !.cur = "", !.ret.result = result,
                                 !.ret.runner = result]
    /\ UNCHANGED shell_vars

\* Matchmaker::handle_mm_message on the next message of the channel; it
\* takes `&mut self`, as try_match_intent does, so it runs between runs.
handle_mm_message(mm, message) ==
    CASE message.type = "InjectTx" ->
             [mm EXCEPT !.injected = Append(@, message.data)]
      [] message.type = "RemoveIntents" ->
             [mm EXCEPT !.mempool = {i \in @ : i \notin message.ids}]
      [] OTHER ->
             [mm EXCEPT !.data = message.data]

HandleMmMessage ==
    /\ call.fn = "matchmaker"
    /\ call.pc = "idle"
    /\ call.queue # <<>>
    /\ call' = [handle_mm_message(call, Head(call.queue)) EXCEPT
                    !.queue = Tail(call.queue),
                    !.handled = Append(call.handled, Head(call.queue)),
                    !.ret = NoMatch]
    /\ UNCHANGED shell_vars

NextMm ==
    \/ \E intent \in IntentIds : TryMatchIntent(intent)
    \/ \E message \in MmCommands : MmHostCall(message)
    \/ \E result \in {"Ok(true)", "Ok(false)", "Err"} : MmRunReturn(result)
    \/ HandleMmMessage

SpecMm == InitMm /\ [][NextMm]_vars





----------------------------------------------------------------------------
(* The channel of matchmaker messages (matchmaker.rs 51-69, 75).            *)

\* A try_send that answers Ok and drops the message when the channel is full.
try_send_drops_when_full(queue, message) ==
    IF Len(queue) >= MmChannelCapacity
    THEN [queue |-> queue, result |-> "Ok"]
    ELSE [queue |-> Append(queue, message), result |-> "Ok"]

\* Sender::try_send on the channel made by channel(100): the message is
\* queued if fewer than MmChannelCapacity are waiting, else the answer is
\* TrySendError::Full at once; it never waits.
try_send(queue, message) ==
    IF Len(queue) >= MmChannelCapacity
    THEN [queue |-> queue, result |-> "Err(Full)"]
    ELSE [queue |-> Append(queue, message), result |-> "Ok"]

\* The message whose sends fill the channel.
ChannelMessage == [type |-> "UpdateData", data |-> "d1", ids |-> {}]

NoSend == [op |-> "none", pending |-> 0, result |-> ""]

\* Matchmaker::new: channel(100), nothing waiting.
InitMmChannel ==
    /\ ShellInit
    /\ call = [fn |-> "mm_channel", pc |-> "idle", queue |-> <<>>,
               ret |-> NoSend]

\* try_match_intent starts the matchmaker code.
ChannelRunStart ==
    /\ call.fn = "mm_channel"
    /\ call.pc = "idle"
    /\ call' = [call EXCEPT !.pc = "running", !.ret = NoSend]
    /\ UNCHANGED shell_vars

\* A method of WasmHost: try_send(message).expect(..) panics on an error.
ChannelHostCall ==
    /\ call.fn = "mm_channel"
    /\ call.pc = "running"
    /\ LET sent == try_send(call.queue, ChannelMessage) IN
       call' = [call EXCEPT
                   !.queue = sent.queue,
                   !.pc = IF sent.result = "Ok" THEN "running" ELSE "panicked",
                   !.ret = [op |-> "try_send", pending |-> Len(call.queue),
                            result |-> IF sent.result = "Ok" THEN "Ok"
                                       ELSE "panic"]]
    /\ UNCHANGED shell_vars

\* The matchmaker code returns.
ChannelRunReturn ==
    /\ call.fn = "mm_channel"
    /\ call.pc = "running"
    /\ call' = [call EXCEPT !.pc = "idle", !.ret = NoSend]
    /\ UNCHANGED shell_vars

\* The receiver takes the next message, between runs.
ChannelRecv ==
    /\ call.fn = "mm_channel"
    /\ call.pc = "idle"
    /\ call.queue # <<>>
    /\ call' = [call EXCEPT !.queue = Tail(@), !.ret = NoSend]
    /\ UNCHANGED shell_vars

NextMmChannel ==
    \/ ChannelRunStart
    \/ ChannelHostCall
    \/ ChannelRunReturn
    \/ ChannelRecv

SpecMmChannel == InitMmChannel /\ [][NextMmChannel]_vars

----------------------------------------------------------------------------
(* The matchmaker code (wasm/matchmaker_template/src/lib.rs): a graph of    *)
(* intents, an edge from a node to each node that buys what it sells.      *)

\* The intents fed to the matchmaker: a triangle t1 -> t3 -> t2 -> t1 (t1
\* sells what t3 buys, and so on), two more intents like t3, and c1, which
\* sells what t1 buys and buys what t1 sells.
IntentData ==
    [t1  |-> [addr |-> "a1", token_sell |-> "X", amount_sell |-> 10,
              token_buy |-> "Y", amount_buy |-> 20],
     t2  |-> [addr |-> "a2", token_sell |-> "Y", amount_sell |-> 20,
              token_buy |-> "Z", amount_buy |-> 30],
     t3  |-> [addr |-> "a3", token_sell |-> "Z", amount_sell |-> 30,
              token_buy |-> "X", amount_buy |-> 10],
     t3b |-> [addr |-> "a4", token_sell |-> "Z", amount_sell |-> 30,
              token_buy |-> "X", amount_buy |-> 10],
     t3c |-> [addr |-> "a5", token_sell |-> "Z", amount_sell |-> 30,
              token_buy |-> "X", amount_buy |-> 10],
     c1  |-> [addr |-> "a6", token_sell |-> "Y", amount_sell |-> 20,
              token_buy |-> "X", amount_buy |-> 10]]

TemplateIntents == DOMAIN IntentData

\* Graph::new: nodes by index (from 1 here, from 0 in petgraph), directed edges.
GraphNew == [nodes |-> <<>>, edges |-> {}]

GraphIndices(graph) == 1 .. Len(graph.nodes)

\* The nodes a depth first search from the nodes S discovers.
RECURSIVE Discovered(_, _)
Discovered(graph, S) ==
    LET T == S \cup {e[2] : e \in {x \in graph.edges : x[1] \in S}} IN
    IF T = S THEN S ELSE Discovered(graph, T)

\* find_to_update_node: of the nodes discovered from node_index(0), those
\* that buy what the new node sells, and else those that sell what it buys.
find_to_update_node(graph, new_node) ==
    LET new == IntentData[new_node]
        found == Discovered(graph, {1})
        sells_to(i) ==
            LET current == IntentData[graph.nodes[i]] IN
            /\ new.token_sell = current.token_buy
            /\ new.amount_sell = current.amount_buy
        buys_from(i) ==
            LET current == IntentData[graph.nodes[i]] IN
            /\ new.token_buy = current.token_sell
            /\ new.amount_buy = current.amount_sell
    IN [connect_sell |-> {i \in found : sells_to(i)},
        connect_buy |-> {i \in found : ~sells_to(i) /\ buys_from(i)}]

\* add_node: the node is added, then searched for, then joined.
add_node(graph, id) ==
    LET added == [graph EXCEPT !.nodes = Append(@, id)]
        new_node_index == Len(added.nodes)
        connect == find_to_update_node(added, id)
    IN [added EXCEPT !.edges =
            @ \cup {<<new_node_index, i>> : i \in connect.connect_sell}
              \cup {<<i, new_node_index>> : i \in connect.connect_buy}]

\* petgraph::algo::tarjan_scc: the strongly connected components.
tarjan_scc(graph) ==
    {{v \in GraphIndices(graph) :
          v \in Discovered(graph, {u}) /\ u \in Discovered(graph, {v})}
        : u \in GraphIndices(graph)}

\* The components find_match_and_send_tx takes for a match.
Cycles(graph) == {s \in tarjan_scc(graph) : Cardinality(s) > 1}

\* The orders in which tarjan_scc may list the nodes of a component
\* ("arbitrary", says petgraph).
Orders(S) ==
    {f \in [1 .. Cardinality(S) -> S] :
        \A i, j \in 1 .. Cardinality(S) : f[i] = f[j] => i = j}

SeqReverse(s) == [k \in 1 .. Len(s) |-> s[Len(s) + 1 - k]]

\* The loop of sort_cycle: the first waiting node that the last ordered
\* node has an edge to is taken, those before it go to the back; if no
\* waiting node is such, the loop pops and pushes back for ever.
RECURSIVE sort_cycle_loop(_, _, _, _)
sort_cycle_loop(graph, cycle_ordered, to_connect_node, cycle_intents) ==
    IF cycle_intents = <<>>
    THEN [diverges |-> FALSE, cycle |-> SeqReverse(cycle_ordered)]
    ELSE LET next == {k \in 1 .. Len(cycle_intents) :
                         <<to_connect_node, cycle_intents[k]>> \in graph.edges}
         IN IF next = {}
            THEN [diverges |-> TRUE, cycle |-> <<>>]
            ELSE LET k == CHOOSE x \in next : \A y \in next : x <= y IN
                 sort_cycle_loop(graph, Append(cycle_ordered, cycle_intents[k]),
                                 cycle_intents[k],
                                 SubSeq(cycle_intents, k + 1, Len(cycle_intents))
                                     \o SubSeq(cycle_intents, 1, k - 1))

sort_cycle(graph, cycle_intents) ==
    sort_cycle_loop(graph, <<Head(cycle_intents)>>, Head(cycle_intents),
                    Tail(cycle_intents))

create_transfer(from_node, to_node) ==
    [source |-> IntentData[from_node].addr,
     target |-> IntentData[to_node].addr,
     token |-> IntentData[to_node].token_buy,
     amount |-> IntentData[to_node].amount_buy]

\* create_and_send_tx_data on the sorted cycle: a transfer from each node
\* to the one before it, and from the first to the last; the intents by
\* address, a later insertion replacing an earlier one.
create_and_send_tx_data(graph, cycle) ==
    LET n == Len(cycle)
        node(k) == graph.nodes[cycle[k]]
        at(k) == IF k = 1 THEN n ELSE k - 1
        last(k) == \A j \in 1 .. n :
                       IntentData[node(j)].addr = IntentData[node(k)].addr
                           => at(j) <= at(k)
    IN [type |-> "InjectTx",
        transfers |-> {create_transfer(node(k), node(k - 1)) : k \in 2 .. n}
                          \cup {create_transfer(node(1), node(n))},
        intents |-> {<<IntentData[node(k)].addr, node(k)>> :
                         k \in {j \in 1 .. n : last(j)}}]

\* Graph::remove_node: the last node takes the index of the removed one.
graph_remove_node(graph, i) ==
    LET n == Len(graph.nodes)
        moved(j) == IF j = n THEN i ELSE j
    IN [nodes |-> [k \in 1 .. n - 1 |->
                      IF k = i THEN graph.nodes[n] ELSE graph.nodes[k]],
        edges |-> {<<moved(e[1]), moved(e[2])>> :
                      e \in {x \in graph.edges : x[1] # i /\ x[2] # i}}]

\* find_match_and_remove_node: the matched nodes are removed, the highest
\* index first.
RECURSIVE remove_nodes(_, _)
remove_nodes(graph, to_remove_nodes) ==
    IF to_remove_nodes = {} THEN graph
    ELSE LET i == CHOOSE x \in to_remove_nodes :
                      \A y \in to_remove_nodes : y <= x
         IN remove_nodes(graph_remove_node(graph, i), to_remove_nodes \ {i})

\* The components in a sequence, by their lowest node.
RECURSIVE CyclesInOrder(_)
CyclesInOrder(cycles) ==
    IF cycles = {} THEN <<>>
    ELSE LET first == CHOOSE s \in cycles :
                          \A t \in cycles : \E x \in s : \A y \in t : x <= y
         IN <<first>> \o CyclesInOrder(cycles \ {first})

UpdateDataCommand == [type |-> "UpdateData", transfers |-> {}, intents |-> {}]

\* The matchmaker starts with no state: decode_graph makes an empty graph.
\* call.matched is the graph in which the last run looked for a match,
\* call.out the commands of the last run, call.injected every InjectTx.
InitMmTemplate ==
    /\ ShellInit
    /\ call = [fn |-> "mm_template", status |-> "returned", graph |-> GraphNew,
               matched |-> GraphNew, fed |-> <<>>, out |-> <<>>,
               injected |-> <<>>]

\* add_intent on the state the run before it left: the node is added, a
\* transaction is sent for every component of more than one node, the nodes
\* of these are removed and the graph is sent with update_data.  The run
\* does not return if sort_cycle does not.
AddIntent(id) ==
    /\ call.fn = "mm_template"
    /\ call.status = "returned"
    /\ \A k \in 1 .. Len(call.fed) : call.fed[k] # id
    /\ LET graph == add_node(call.graph, id)
           cycles == CyclesInOrder(Cycles(graph))
       IN \E listed \in [1 .. Len(cycles) -> UNION {Orders(s) : s \in Cycles(graph)}] :
              /\ \A k \in 1 .. Len(cycles) : listed[k] \in Orders(cycles[k])
              /\ LET sorted == [k \in 1 .. Len(cycles) |-> sort_cycle(graph, listed[k])]
                     txs == [k \in 1 .. Len(cycles) |->
                                create_and_send_tx_data(graph, sorted[k].cycle)]
                 IN call' =
                     IF \E k \in 1 .. Len(cycles) : sorted[k].diverges
                     THEN [call EXCEPT !.status = "hung", !.matched = graph,
                                       !.fed = Append(@, id), !.out = <<>>]
                     ELSE [call EXCEPT
                              !.graph = remove_nodes(graph, UNION Cycles(graph)),
                              !.matched = graph,
                              !.fed = Append(@, id),
                              !.out = txs \o <<UpdateDataCommand>>,
                              !.injected = @ \o txs]
    /\ UNCHANGED shell_vars

NextMmTemplate == \E id \in TemplateIntents : AddIntent(id)

SpecMmTemplate == InitMmTemplate /\ [][NextMmTemplate]_vars







----------------------------------------------------------------------------
(* Token transfers and the token validity predicate (vm_env/src/token.rs). *)

TokenOwners == {"A", "B"}

\* token::balance_key
balance_key(token, owner) == [kind |-> "balance", token |-> token, owner |-> owner]

\* The keys of the model: the balances of token X, and a key of token X
\* that is no balance key.
TokenKeys ==
    {balance_key("X", o) : o \in TokenOwners}
        \cup {[kind |-> "other", token |-> "X", owner |-> "A"]}

\* token::is_balance_key: the owner, if the key is a balance key of the token.
is_balance_key(token, key) ==
    IF key.kind = "balance" /\ key.token = token THEN Some(key.owner) ELSE None

Amounts == 0 .. MaxAmount

\* Option::unwrap_or_default on an amount.
unwrap_or_default(o) == IF IsSome(o) THEN Unwrap(o) ELSE 0

\* The stores a transaction may start from.
TokenStores ==
    {st \in [TokenKeys -> {None} \cup {Some(a) : a \in Amounts}] :
        \A k \in TokenKeys : k.kind = "other" => st[k] \in {None, Some(0)}}

NoTokenCall ==
    [op |-> "none", src |-> "", dest |-> "", amount |-> 0, result |-> "",
     verifiers |-> {}]

RECURSIVE SumOver(_, _)
SumOver(f, S) ==
    IF S = {} THEN 0
    ELSE LET k == CHOOSE x \in S : TRUE IN f[k] + SumOver(f, S \ {k})

\* The change of each key, as the validity predicate computes it:
\* post.change() - pre.change(), an absent value read as 0.
this_change(pre, post) ==
    [k \in TokenKeys |-> unwrap_or_default(post[k]) - unwrap_or_default(pre[k])]

\* A validity predicate that does not ask for the owner of a decreased
\* balance among the verifiers.
vp_any_spender(token, keys_changed, verifiers, pre, post) ==
    /\ \A key \in keys_changed : IsSome(is_balance_key(token, key))
    /\ SumOver(this_change(pre, post), keys_changed) = 0

\* token::vp: every changed key is a balance key of the token, the owner of
\* each decreased balance is a verifier, and the changes sum to zero.
vp(token, keys_changed, verifiers, pre, post) ==
    /\ \A key \in keys_changed :
           /\ IsSome(is_balance_key(token, key))
           /\ this_change(pre, post)[key] < 0 =>
                  Unwrap(is_balance_key(token, key)) \in verifiers
    /\ SumOver(this_change(pre, post), keys_changed) = 0

\* token::transfer on the store the transaction sees: both balances are
\* read, then both are written, the source first.  Without a balance of the
\* source the code is unreachable!() and the transaction panics.
transfer(st, src, dest, token, amount) ==
    LET src_key == balance_key(token, src)
        dest_key == balance_key(token, dest)
        src_bal == st[src_key]
    IN IF ~IsSome(src_bal)
       THEN [result |-> "panic", store |-> st, written |-> {}]
       ELSE LET spent == Unwrap(src_bal) - amount
                dest_bal == unwrap_or_default(st[dest_key]) + amount
                first == [st EXCEPT ![src_key] = Some(spent)]
            IN [result |-> "ok",
                store |-> [first EXCEPT ![dest_key] = Some(dest_bal)],
                written |-> {src_key, dest_key}]

\* A transaction starts on a store: call.pre is the store before it,
\* call.post the store it sees, call.keys_changed the keys it has written.
InitToken ==
    /\ ShellInit
    /\ call \in {[fn |-> "token", pre |-> st, post |-> st, before |-> st,
                  keys_changed |-> {}, ops |-> 0, ret |-> NoTokenCall]
                 : st \in TokenStores}

\* The transaction calls token::transfer (tx_transfer's apply_tx), with an
\* amount the source has and the target can hold.
TokenTransfer(src, dest, amount) ==
    /\ call.fn = "token"
    /\ call.ops < MaxTokenOps
    /\ call.ret.result # "panic"
    /\ LET src_bal == call.post[balance_key("X", src)]
           dest_bal == call.post[balance_key("X", dest)]
       IN /\ IsSome(src_bal) => amount <= Unwrap(src_bal)
          /\ unwrap_or_default(dest_bal) + amount <= MaxAmount
    /\ LET done == transfer(call.post, src, dest, "X", amount) IN
       call' = [call EXCEPT
                   !.before = call.post,
                   !.post = done.store,
                   !.keys_changed = @ \cup done.written,
                   !.ops = @ + 1,
                   !.ret = [op |-> "transfer", src |-> src, dest |-> dest,
                            amount |-> amount, result |-> done.result,
                            verifiers |-> {}]]
    /\ UNCHANGED shell_vars

\* The transaction writes a key, or deletes it.
TokenWrite(key, value) ==
    /\ call.fn = "token"
    /\ call.ops < MaxTokenOps
    /\ call.ret.result # "panic"
    /\ key.kind = "other" => value \in {None, Some(0)}
    /\ call' = [call EXCEPT
                   !.before = call.post,
                   !.post[key] = value,
                   !.keys_changed = @ \cup {key},
                   !.ops = @ + 1,
                   !.ret = NoTokenCall]
    /\ UNCHANGED shell_vars

\* The validity predicate of the token runs on the keys the transaction
\* changed, with a set of verifiers.
TokenVp(verifiers) ==
    /\ call.fn = "token"
    /\ call.ret.op # "vp"
    /\ call.ret.result # "panic"
    /\ call' = [call EXCEPT
                   !.ret = [op |-> "vp", src |-> "", dest |-> "", amount |-> 0,
                            result |-> IF vp("X", call.keys_changed, verifiers,
                                             call.pre, call.post)
                                       THEN "accept" ELSE "reject",
                            verifiers |-> verifiers]]
    /\ UNCHANGED shell_vars

NextToken ==
    \/ \E src, dest \in TokenOwners, amount \in Amounts :
           TokenTransfer(src, dest, amount)
    \/ \E key \in TokenKeys, value \in {None} \cup {Some(a) : a \in Amounts} :
           TokenWrite(key, value)
    \/ \E verifiers \in SUBSET TokenOwners : TokenVp(verifiers)

SpecToken == InitToken /\ [][NextToken]_vars





----------------------------------------------------------------------------
(* The comparator of the DB keys (storage/rocksdb.rs 70-92) on the keys    *)
(* the DB holds, byte by byte.                                             *)

\* The heights of the blocks whose rows are compared.
ComparatorHeights == {2, 9, 10}

\* u64::to_string: the decimal digits.
RECURSIVE u64_to_string(_)
u64_to_string(n) ==
    IF n < 10 THEN <<48 + n>>
    ELSE u64_to_string(n \div 10) \o <<48 + (n % 10)>>

RECURSIVE DigitsValue(_, _)
DigitsValue(digits, acc) ==
    IF digits = <<>> THEN acc
    ELSE DigitsValue(Tail(digits), 10 * acc + (Head(digits) - 48))

\* str::parse::<u64>: decimal digits, after an optional '+'; an error
\* otherwise (None here).
parse_u64(str) ==
    LET digits == IF str # <<>> /\ str[1] = 43 THEN Tail(str) ELSE str IN
    IF digits # <<>> /\ \A i \in 1 .. Len(digits) : digits[i] \in 48 .. 57
    THEN Some(DigitsValue(digits, 0))
    ELSE None

\* The paths under a height, as write_block names them: hash, tree/root,
\* tree/store, address_gen and subspace/a.
BlockSuffixes ==
    {<<104, 97, 115, 104>>,
     <<116, 114, 101, 101, Sep, 114, 111, 111, 116>>,
     <<116, 114, 101, 101, Sep, 115, 116, 111, 114, 101>>,
     <<97, 100, 100, 114, 101, 115, 115, 95, 103, 101, 110>>,
     <<115, 117, 98, 115, 112, 97, 99, 101, Sep, 97>>}

\* The keys the DB holds: chain_id, height, and the rows of the blocks;
\* block is the height a row belongs to, -1 for the two others.
DbKeys ==
    {[path |-> <<99, 104, 97, 105, 110, 95, 105, 100>>, block |-> -1],
     [path |-> <<104, 101, 105, 103, 104, 116>>, block |-> -1]}
        \cup {[path |-> u64_to_string(h) \o <<Sep>> \o s, block |-> h] :
                  h \in ComparatorHeights, s \in BlockSuffixes}

\* A comparator that compares the keys as strings.
key_comparator_as_strings(a, b) ==
    IF a = b THEN "Equal" ELSE IF StrLess(a, b) THEN "Less" ELSE "Greater"

\* key_comparator: when both first segments parse as a height, the heights
\* are compared as numbers and, if equal, the segments after them; else
\* the keys are compared as strings.
key_comparator(a, b) ==
    LET a_vec == Split(a)
        b_vec == Split(b)
        result_a_h == parse_u64(a_vec[1])
        result_b_h == parse_u64(b_vec[1])
    IN IF IsSome(result_a_h) /\ IsSome(result_b_h)
       THEN IF Unwrap(result_a_h) = Unwrap(result_b_h)
            THEN IF Tail(a_vec) = Tail(b_vec) THEN "Equal"
                 ELSE IF VecLess(Tail(a_vec), Tail(b_vec)) THEN "Less"
                 ELSE "Greater"
            ELSE IF Unwrap(result_a_h) < Unwrap(result_b_h) THEN "Less"
                 ELSE "Greater"
       ELSE IF a = b THEN "Equal"
            ELSE IF StrLess(a, b) THEN "Less" ELSE "Greater"

\* The scan of read_last_block: from `<height>/` on, in comparator order,
\* below the upper bound `<height + 1>/`.
scan_block(keys, height) ==
    LET prefix == u64_to_string(height) \o <<Sep>>
        next_height_prefix == u64_to_string(height + 1) \o <<Sep>>
    IN {k \in keys : /\ key_comparator(k.path, prefix) # "Less"
                     /\ key_comparator(k.path, next_height_prefix) = "Less"}

NoComparison ==
    [done |-> FALSE, ab |-> "", ba |-> "", bc |-> "", ac |-> "", scanned |-> {}]

InitComparator ==
    /\ ShellInit
    /\ call \in {[fn |-> "key_comparator", a |-> a, b |-> b, c |-> c,
                  height |-> h, ret |-> NoComparison]
                 : a \in DbKeys, b \in DbKeys, c \in DbKeys,
                   h \in ComparatorHeights}

\* The DB compares the three keys, and read_last_block scans the block.
CallKeyComparator ==
    /\ call.fn = "key_comparator"
    /\ ~call.ret.done
    /\ call' = [call EXCEPT !.ret =
                   [done |-> TRUE,
                    ab |-> key_comparator(call.a.path, call.b.path),
                    ba |-> key_comparator(call.b.path, call.a.path),
                    bc |-> key_comparator(call.b.path, call.c.path),
                    ac |-> key_comparator(call.a.path, call.c.path),
                    scanned |-> scan_block(DbKeys, call.height)]]
    /\ UNCHANGED shell_vars

NextComparator == CallKeyComparator

SpecComparator == InitComparator /\ [][NextComparator]_vars

----------------------------------------------------------------------------
(* Properties.                                                             *)

\* The step in which the shell handles the command of the given type.
Handles(type) ==
    /\ reply.to = type
    /\ reply.status = "pending"
    /\ reply'.status \in {"sent", "dropped"}

\* The step in which the shell handles an ApplyTx command.
ApplyTxStep == txSeq' = txSeq + 1

\* The modifications in a write log (either scope) staged by transaction t.
StagedIn(log, t) == {k \in Keys : IsSome(log[k]) /\ Unwrap(log[k]).by = t}

\* C1: a transaction whose TxResult is not accepted (a VP rejected it) has
\* its staged writes dropped: none of its modifications stays in the write
\* log, in either scope, and no Commit writes a write, delete or account
\* initialisation of it into storage; so of the transactions with a
\* TxResult only the accepted ones are merged into the block.
C1_RejectedTxLeavesNoEffect ==
    \A t \in TxIds :
        verdict[t] = "rejected" =>
            /\ StagedIn(write_log.tx_writes, t) = {}
            /\ StagedIn(write_log.block_writes, t) = {}
            /\ t \notin applied
            /\ \A k \in Keys : storage_read(storage, k) # Some(t)

\* A rejected transaction had staged a modification, a Commit followed it
\* and that Commit wrote the modifications of another transaction.
C1_Witness ==
    \E t \in TxIds :
        /\ verdict[t] = "rejected"
        /\ t \in stagedBy
        /\ settled >= t
        /\ applied # {}

\* C2: a transaction whose application ended in an error has none of its
\* staged writes written into storage by a Commit.
C2_ErroredTxLeavesNoEffect ==
    \A t \in TxIds : verdict[t] = "error" => t \notin applied

\* C3: the Commit of an open block leaves at every key the last write among the accepted
\* transactions since the previous Commit, in arrival order (absent for a
\* delete), and the value the storage had when none of them touched it.
C3_CommitYieldsAcceptedWrites ==
    [][(Handles("CommitBlock") /\ open) =>
          \A k \in Keys :
              storage_read(storage', k) = AcceptedView(blockAcc, storage)[k]]_vars

\* C4: when the shell drops the writes a transaction staged on top of the
\* block-level write log and the storage, every read returns what the
\* block-level write log over the storage returned, and the block-level
\* writes and the storage are as they were.
C4_DropTxRestoresReads ==
    [][(ApplyTxStep /\ verdict'[txSeq'] = "rejected") =>
          /\ ReadView(write_log', storage')
               = ReadView([tx_writes |-> EmptyLog,
                           block_writes |-> write_log.block_writes], storage)
          /\ write_log'.block_writes = write_log.block_writes
          /\ storage' = storage]_vars

\* The transaction just rejected had staged a modification over a block
\* write log that holds the writes of an accepted transaction.
C4_Witness ==
    /\ reply.to = "ApplyTx"
    /\ reply.status = "sent"
    /\ txSeq \in TxIds
    /\ verdict[txSeq] = "rejected"
    /\ txSeq \in stagedBy
    /\ write_log.block_writes # EmptyLog

\* C5: no ApplyTx, whatever its outcome, changes the storage (its values,
\* its Merkle tree) or the rows of the DB.
C5_ApplyTxLeavesStorage ==
    [][ApplyTxStep => (storage' = storage /\ db' = db)]_vars

\* In an open block an accepted transaction has staged a modification that
\* reads through the write log return and the storage does not hold.
C5_Witness ==
    /\ open
    /\ reply.to = "ApplyTx"
    /\ reply.status = "sent"
    /\ txSeq \in TxIds
    /\ verdict[txSeq] = "accepted"
    /\ txSeq \in stagedBy
    /\ ReadView(write_log, storage) # storage.subspaces

\* C6: handling a dry_run_tx query leaves the write log, the gas meter and
\* the storage of the shell as they were, whatever the outcome of the run.
C6_DryRunLeavesShell ==
    [][(Handles("AbciQuery") /\ reply.path = "dry_run_tx") =>
          /\ write_log' = write_log
          /\ gas_meter' = gas_meter
          /\ storage' = storage]_vars

\* A dry run was accepted on a shell whose write log holds staged writes
\* and whose gas meter has been charged.
C6_Witness ==
    /\ reply.to = "AbciQuery"
    /\ reply.path = "dry_run_tx"
    /\ reply.status = "sent"
    /\ reply.value = "accepted"
    /\ write_log.block_writes # EmptyLog
    /\ gas_meter # GasDefault

\* C7: an ApplyTx handled when no block is open is answered with an error
\* and stages nothing, and a Commit is handled only after a BeginBlock.
C7_BlockCommandsInOrder ==
    [][/\ (ApplyTxStep /\ ~open) =>
             /\ reply'.value \notin {"accepted", "rejected"}
             /\ write_log' = write_log
       /\ Handles("CommitBlock") => begun]_vars

\* C8: the running shell never lets the reply channel of a command go
\* without a reply.
C8_EveryCommandAnswered ==
    shell = "recv" => reply.status # "dropped"

\* C9: in an open block a read through the write log returns, at every key
\* an accepted transaction since the last Commit wrote or deleted, the last
\* such write in arrival order: this is what the next transaction reads.
C9_ReadsFollowArrivalOrder ==
    (shell = "recv" /\ open) =>
        \A k \in Keys :
            IsSome(blockAcc[k]) => wl_read(write_log, storage, k) = Unwrap(blockAcc[k])

\* C10: an ApplyTx whose bytes do not decode is answered with the decoding
\* error, changes nothing in the write log, the gas meter, the storage and
\* the DB, and leaves the shell receiving commands.
C10_MalformedTxIsLocal ==
    [][(ApplyTxStep /\ verdict'[txSeq'] = "malformed") =>
          /\ <<storage, db, gas_meter, write_log>>' = <<storage, db, gas_meter, write_log>>
          /\ shell' = "recv"
          /\ reply'.status = "sent"
          /\ reply'.value \in {"TxDecodingError", "NoTimestampError"}]_vars

\* After a transaction that did not decode, a later transaction was
\* accepted and a Commit wrote its modifications.
C10_Witness ==
    \E t, u \in TxIds :
        /\ t < u
        /\ verdict[t] = "malformed"
        /\ verdict[u] = "accepted"
        /\ u \in applied

\* C11: when the Commit could not persist the block (the `height` pointer
\* in the DB is not the height of the block just committed), the shell does
\* not answer CommitBlock with a Merkle root and stops receiving commands.
C11_PersistFailureIsFatal ==
    [][(Handles("CommitBlock") /\ db'.height # Some(storage'.height)) =>
          /\ reply'.status # "sent"
          /\ shell' # "recv"]_vars

\* C12: when the send of a reply fails, run returns the error, and once
\* run has returned an error nothing queued on the channel is received and
\* the write log, the gas meter, the storage and the DB stay as they are.
C12_SendFailureStopsShell ==
    [][/\ (reply.rx = "gone" /\ reply'.status = "send_error") => shell' = "failed"
       /\ shell = "failed" => (abci' = abci /\ state' = state)]_vars

\* The send of a reply failed, run has returned, and a command that was
\* queued behind the failed one is still on the channel.
C12_Witness ==
    /\ shell = "failed"
    /\ reply.status = "send_error"
    /\ abci # <<>>

\* C13: mempool_validate succeeds exactly on the bytes that decode as a Tx
\* with a timestamp, for both transaction types, and handling a
\* MempoolValidate changes nothing in the storage, the DB, the write log
\* and the gas meter.
C13_MempoolValidateIsSyntactic ==
    [][Handles("MempoolValidate") =>
          /\ state' = state
          /\ reply'.value \in {"ok", "TxDecodingError", "NoTimestampError"}
          /\ \A b \in TxBytes(TxCodes(0, MaxOps)), type \in MempoolTxTypes :
                 /\ mempool_validate(b, type).ok
                      <=> (b.wire = "proto" /\ IsSome(b.timestamp))
                 /\ mempool_validate(b, type).ok
                      <=> (mempool_validate(b, type).value = "ok")]_vars

\* A MempoolValidate was answered with success on a shell whose write log
\* holds the writes of an accepted transaction.
C13_Witness ==
    /\ reply.to = "MempoolValidate"
    /\ reply.status = "sent"
    /\ reply.value = "ok"
    /\ write_log.block_writes # EmptyLog

\* C14: whenever the DB holds the `height` pointer h, the rows of block h
\* are there, all of one write: the root is that of the stored tree and
\* every pair of the tree has its subspace row.  This holds after a failed
\* batch write and after a stop between the batch and the pointer.
C14_PointerAfterRows ==
    IsSome(db.height) =>
        /\ IsSome(db.rows[Unwrap(db.height)])
        /\ LET row == Unwrap(db.rows[Unwrap(db.height)]) IN
           /\ row.root = merkle_root(row.store)
           /\ \A k \in Keys : IsSome(row.store[k]) => row.subspace[k] = row.store[k]

\* write_block stopped between its two writes: the rows of block 1 are in
\* the DB and the pointer still names the block committed before it.
C14_Witness ==
    /\ db.height = Some(0)
    /\ IsSome(db.rows[1])
    /\ IsSome(db.rows[0])

\* C15: after a Commit that persisted the block, opening the DB anew and
\* loading the last state gives the Merkle root and height of that Commit,
\* and the chain id, block hash, address generator, tree and the value at
\* every key (absent for a deleted key) that the storage had at the Commit.
C15_ReopenRestoresCommit ==
    [][(/\ Handles("CommitBlock")
        /\ IsSome(db'.chain_id)
        /\ db' = storage_commit(commit_block(write_log, storage).storage,
                                db, "none").db) =>
          LET r == load_last_state(StorageInit, db') IN
          /\ r.ok
          /\ r.result = Some(<<merkle_root(storage'.tree), storage'.height>>)
          /\ r.storage.chain_id = storage'.chain_id
          /\ r.storage.hash = storage'.hash
          /\ r.storage.address_gen = storage'.address_gen
          /\ \A k \in Keys : storage_read(r.storage, k) = storage_read(storage', k)]_vars

\* One of the rows root, store, hash and address_gen is missing under the
\* height d points to.
MissingEssential(d) ==
    LET row == d.rows[Unwrap(d.height)] IN
    ~IsSome(row.root) \/ ~IsSome(row.store) \/ ~IsSome(row.hash)
        \/ ~IsSome(row.address_gen)

\* C16: read_last_block returns None exactly when the chain_id or the
\* height pointer is absent, and an error whenever both are there and one
\* of the rows root, store, hash, address_gen of that height is missing.
C16_MissingRowIsError ==
    (call.fn = "read_last_block" /\ call.stage = "done") =>
        LET d == call.arg
            r == call.ret
            pointers == IsSome(d.chain_id) /\ IsSome(d.height)
        IN  /\ (r.ok /\ r.state = None) <=> ~pointers
            /\ (pointers /\ MissingEssential(d)) => ~r.ok
            /\ (pointers /\ ~MissingEssential(d)) => (r.ok /\ IsSome(r.state))

\* read_last_block has returned an error on a DB that has both pointers
\* and every row of the height but the address_gen.
C16_Witness ==
    /\ call.fn = "read_last_block"
    /\ call.stage = "done"
    /\ IsSome(call.arg.chain_id)
    /\ IsSome(call.arg.height)
    /\ LET row == call.arg.rows[Unwrap(call.arg.height)] IN
       /\ IsSome(row.root)
       /\ IsSome(row.store)
       /\ IsSome(row.hash)
       /\ ~IsSome(row.address_gen)
    /\ ~call.ret.ok

\* The call of iter_prefix has returned.
IterDone == call.fn = "iter_prefix" /\ call.stage = "done"

\* Key k lies under prefix p: the segments of p are the first segments of k.
Under(k, p) == Len(p) <= Len(k) /\ SubSeq(k, 1, Len(p)) = p

\* C17: iterating a prefix that is equal to a full stored key yields exactly
\* that one key, and iterating a prefix equal to a full key that is not
\* stored yields nothing, whatever other keys are stored.
C17_FullKeyPrefix ==
    IterDone =>
        LET hit == {r \in call.arg.rows : r.key = call.arg.prefix} IN
        IF hit = {} THEN call.ret = <<>>
        ELSE /\ Len(call.ret) = 1
             /\ call.ret[1].key = KeyToString(call.arg.prefix)

\* C18: iter_prefix over a committed block yields every stored pair whose
\* key lies under the prefix exactly once, in ascending key order, with the
\* DB prefix stripped from the key, and the gas of each step is
\* len(key) + len(value).
C18_IterYieldsPrefixRows ==
    IterDone =>
        LET ret == call.ret IN
        /\ \A r \in call.arg.rows :
               Under(r.key, call.arg.prefix) =>
                   Cardinality({i \in 1 .. Len(ret) : ret[i].key = r.path}) = 1
        /\ \A i \in 1 .. Len(ret) :
               /\ \E r \in call.arg.rows : r.path = ret[i].key /\ r.val = ret[i].val
               /\ ret[i].gas = Len(ret[i].key) + Len(ret[i].val)
        /\ \A i \in 1 .. (Len(ret) - 1) :
               key_comparator_less(ret[i].key, ret[i + 1].key)

\* C19: before any write of k and after a delete of k, has_key(k) is false
\* and read(k) is None; after a write of v at k, has_key(k) is true and
\* read(k) returns v.  The gas of has_key is len(k); the gas of read is
\* len(k) when the key is absent and len(k) + len(v) when it is present.
C19_CrudAndGas ==
    call.fn = "storage" =>
        LET q == call.ret
            last == call.last[q.key]
        IN  /\ q.op = "has_key" =>
                   /\ q.found = IsSome(last)
                   /\ q.gas = Len(KeyToString(q.key))
            /\ q.op = "read" =>
                   /\ q.value = last
                   /\ q.gas = Len(KeyToString(q.key))
                               + (IF IsSome(last) THEN Len(Unwrap(last)) ELSE 0)

\* A read of a key that holds a one-byte value while another key holds none.
C19_Witness ==
    /\ call.fn = "storage"
    /\ call.ret.op = "read"
    /\ call.ret.value = Some(<<Sep + 1>>)
    /\ call.ret.gas = Len(KeyToString(call.ret.key)) + 1
    /\ \E k \in CrudKeys \ {call.ret.key} : ~IsSome(call.last[k])

\* C20: a write of a 0-length value is observable: a following read of the
\* key returns the host result length 0 and a present empty value, a read
\* of an absent key returns -1 and nothing, and has_key reports the key
\* written with the 0-length value as present.
C20_EmptyValueObservable ==
    call.fn = "vm_env" =>
        LET q == call.ret IN
        /\ (q.op = "read" /\ call.last[q.key] = Some(<<>>)) =>
               /\ q.size = 0
               /\ ~HostEnvResult_is_fail(q.size)
               /\ q.type = "unit" => q.result = Some([t |-> "unit", v |-> <<>>])
        /\ (q.op = "read" /\ call.last[q.key] = None) =>
               /\ q.size = -1
               /\ q.result = None
        /\ (q.op = "has_key" /\ call.last[q.key] = Some(<<>>)) => q.found

\* A read as the unit type of a key that holds a 0-length value, while the
\* other key is absent.
C20_Witness ==
    /\ call.fn = "vm_env"
    /\ call.ret.op = "read"
    /\ call.ret.type = "unit"
    /\ call.last[call.ret.key] = Some(<<>>)
    /\ call.ret.size = 0
    /\ IsSome(call.ret.result)
    /\ \E k \in Keys \ {call.ret.key} : call.last[k] = None

\* C21: within one table insert returns the ids 0, 1, 2, ... and never the
\* same id twice; each id refers to the iterator it was issued for (what is
\* left of it after the items next has yielded); a fresh table starts again
\* at 0; next on an id the table never issued returns None.
C21_IteratorIds ==
    call.fn = "prefix_iterators" =>
        /\ \A i \in 1 .. Len(call.issued) : call.issued[i] = i - 1
        /\ DOMAIN call.table.iterators = {call.issued[i] : i \in 1 .. Len(call.issued)}
        /\ \A i \in 1 .. Len(call.issued) :
               call.table.iterators[call.issued[i]]
                   = SubSeq(call.given[i], call.taken[i] + 1, Len(call.given[i]))
        /\ (call.ret.op = "next"
              /\ \A i \in 1 .. Len(call.issued) : call.issued[i] # call.ret.id)
               => call.ret.item = None

\* The second run has issued two ids, an item of the first iterator has
\* been taken, and next was just called on an id never issued.
C21_Witness ==
    /\ call.fn = "prefix_iterators"
    /\ call.run = 2
    /\ call.issued = <<0, 1>>
    /\ call.given[1] # call.given[2]
    /\ call.taken[1] = 1
    /\ call.ret.op = "next"
    /\ call.ret.id = 2
    /\ call.ret.item = None

C24_AddressRoundTrip ==
    (call.fn = "address" /\ call.stage = "done" /\ Len(call.arg.hash) = HASH_LEN) =>
        /\ call.ret.ok
        /\ call.ret.address = call.arg

\* An Implicit address with the hash of an address generate_address
\* returned has been encoded and decoded.
C24_Witness ==
    /\ call.fn = "address"
    /\ call.stage = "done"
    /\ call.arg.kind = "Implicit"
    /\ \E s \in GenSeeds, r \in RngSources :
           call.arg.hash = generate_address(address_gen_new(s), r).address.hash
    /\ call.ret.ok

\* C25: Tx::try_from(tx.to_bytes()) = tx for every Tx: the code, the data
\* (absent or present) and the timestamp are preserved.
C25_TxRoundTrip ==
    (call.fn = "tx_round_trip" /\ call.stage = "done") =>
        /\ call.ret.ok
        /\ call.ret.tx = call.arg

\* A Tx with an empty code, data present but empty and a timestamp of
\* default fields has been encoded and decoded.
C25_Witness ==
    /\ call.fn = "tx_round_trip"
    /\ call.stage = "done"
    /\ call.arg.code = <<>>
    /\ call.arg.data = Some(<<>>)
    /\ call.arg.timestamp = TimestampDefault
    /\ call.bytes = <<18, 0, 26, 0>>
    /\ call.ret.ok

\* C26: decoding a Tx or an Intent whose timestamp field is missing
\* returns NoTimestampError and produces no Tx or Intent value, whatever
\* its code and data are.
C26_MissingTimestamp ==
    /\ (call.fn = "tx_decode" /\ call.stage = "done") =>
           /\ ~call.ret.ok
           /\ call.ret.err = "NoTimestampError"
           /\ call.ret.tx = NoTx
    /\ (call.fn = "intent_try_from" /\ call.stage = "done") =>
           /\ ~call.ret.ok
           /\ call.ret.err = "NoTimestampError"
           /\ call.ret.intent = NoIntent

\* A wire Tx with code and data but no timestamp has been decoded.
C26_Witness ==
    /\ call.fn = "tx_decode"
    /\ call.stage = "done"
    /\ call.arg.code # <<>>
    /\ IsSome(call.arg.data)
    /\ call.bytes # <<>>
    /\ call.ret.err = "NoTimestampError"

\* C27: IntentGossipMessage::try_from(m.to_bytes()) = m for every intent
\* gossip message m, and an Intent converted to its wire type and back is
\* the same Intent (data and timestamp preserved).
C27_IntentRoundTrip ==
    /\ (call.fn = "intent_gossip_round_trip" /\ call.stage = "done") =>
           /\ call.ret.ok
           /\ [intent |-> call.ret.intent] = call.arg
    /\ (call.fn = "intent_round_trip" /\ call.stage = "done") =>
           /\ call.ret.ok
           /\ call.ret.intent = call.arg

\* A gossip message whose intent has empty data and a timestamp of default
\* fields has been encoded (as an empty timestamp inside the intent) and
\* decoded.
C27_Witness ==
    /\ call.fn = "intent_gossip_round_trip"
    /\ call.stage = "done"
    /\ call.arg.intent = NoIntent
    /\ call.bytes = <<10, 2, 18, 0>>
    /\ call.ret.ok

C29_FilterGatesMempoolAndRun ==
    (call.fn = "matchmaker" /\ IsSome(call.filter)
        /\ call.ret.op = "try_match_intent") =>
        /\ Unwrap(call.filter)[call.ret.intent] = "reject" =>
               /\ call.ret.result = "Ok(false)"
               /\ ~call.ret.ran
               /\ call.pc = "idle"
               /\ call.mempool = call.ret.before
               /\ call.ret.intent \notin call.mempool
        /\ Unwrap(call.filter)[call.ret.intent] = "accept" =>
               /\ call.ret.ran
               /\ call.ret.intent \in call.snap.mempool
               /\ call.pc = "running" =>
                      (call.cur = call.ret.intent /\ call.cur \in call.mempool)

\* The filter has rejected one intent after it accepted another, which is
\* in the mempool.
C29_Witness ==
    /\ call.fn = "matchmaker"
    /\ IsSome(call.filter)
    /\ call.ret.op = "try_match_intent"
    /\ call.ret.intent = "i1"
    /\ Unwrap(call.filter)["i1"] = "reject"
    /\ call.ret.result = "Ok(false)"
    /\ call.mempool = {"i2"}


\* C30: the commands the matchmaker code emits during a run change neither
\* the mempool nor the matchmaker state during that run; they wait in the
\* channel and handle_mm_message applies them after the run has returned,
\* in the order of their emission.
C30_CommandsAppliedAfterRunInOrder ==
    call.fn = "matchmaker" =>
        /\ call.handled \o call.queue = call.emitted
        /\ call.pc = "running" =>
               /\ call.mempool = call.snap.mempool
               /\ call.data = call.snap.data
               /\ Len(call.handled) = call.snap.handled

\* A run emitted the removal of its own intent and then a new state; both
\* were applied, in that order, after the run returned.
C30_Witness ==
    /\ call.fn = "matchmaker"
    /\ call.pc = "idle"
    /\ call.emitted = <<[type |-> "RemoveIntents", data |-> "", ids |-> {"i1"}],
                        [type |-> "UpdateData", data |-> "d1", ids |-> {}]>>
    /\ call.handled = call.emitted
    /\ call.snap.mempool = {"i1"}
    /\ call.snap.data = "d0"
    /\ call.mempool = {}
    /\ call.data = "d1"

\* C31: the channel of matchmaker commands never holds more than 100
\* waiting commands; a send answers at once; a send while 100 are waiting
\* panics, and the command is neither queued nor reported as sent.
C31_ChannelBounded ==
    call.fn = "mm_channel" =>
        /\ Len(call.queue) <= 100
        /\ call.ret.op = "try_send" =>
               /\ call.ret.result \in {"Ok", "panic"}
               /\ call.ret.pending < 100 =>
                      (call.ret.result = "Ok" /\ call.pc = "running"
                          /\ Len(call.queue) = call.ret.pending + 1)
               /\ call.ret.pending >= 100 =>
                      (call.ret.result = "panic" /\ call.pc = "panicked"
                          /\ Len(call.queue) = call.ret.pending)

\* A command was emitted while 100 waited: the host panicked.
C31_Witness ==
    /\ call.fn = "mm_channel"
    /\ call.pc = "panicked"
    /\ call.ret.op = "try_send"
    /\ call.ret.pending = 100
    /\ Len(call.queue) = 100

\* C32: after the three intents of a triangular swap have been fed one
\* after another, in any order, each run on the state the run before it
\* left, exactly one InjectTx has been emitted, and it holds three
\* transfers and three intents.
C32_TriangleMatched ==
    (call.fn = "mm_template" /\ Len(call.fed) = 3
        /\ {call.fed[k] : k \in 1 .. 3} = {"t1", "t2", "t3"}) =>
        /\ call.status = "returned"
        /\ Len(call.injected) = 1
        /\ Cardinality(call.injected[1].transfers) = 3
        /\ Cardinality(call.injected[1].intents) = 3


\* C33: when a run has matched a cycle of intents, it emits after the
\* InjectTx a RemoveIntents command with the ids of exactly the matched
\* intents.
C33_MatchedIntentsRemoved ==
    call.fn = "mm_template" =>
        \A k \in 1 .. Len(call.out) :
            call.out[k].type = "InjectTx" =>
                \E j \in (k + 1) .. Len(call.out) :
                    /\ call.out[j].type = "RemoveIntents"
                    /\ {x[2] : x \in call.out[j].intents}
                           = {x[2] : x \in call.out[k].intents}


\* C34: when the matchmaker runner returns an error, try_match_intent
\* panics and returns neither Err(RunnerFailed) nor Ok(false); the intent
\* of the run has been put in the mempool before, and is still there.
C34_RunnerErrorPanics ==
    (call.fn = "matchmaker" /\ call.ret.runner = "Err") =>
        /\ call.pc = "panicked"
        /\ call.ret.result = "panic"
        /\ call.ret.intent \in call.snap.mempool
        /\ call.ret.intent \in call.mempool

\* The runner failed on the second accepted intent, after the first run
\* asked for the removal of that intent.
C34_Witness ==
    /\ call.fn = "matchmaker"
    /\ call.ret.runner = "Err"
    /\ call.pc = "panicked"
    /\ call.ret.intent = "i2"
    /\ call.mempool = {"i1", "i2"}
    /\ Len(call.queue) = 1
    /\ call.queue[1].type = "RemoveIntents"
    /\ call.queue[1].ids = {"i2"}


\* C37: the state passed to a run of the matchmaker code is the data of
\* the last update_data emitted by the runs completed before it, if any.
C37_RunSeesLastUpdate ==
    (call.fn = "matchmaker" /\ call.pc = "running") =>
        LET updates == {k \in 1 .. call.snap.emitted :
                            call.emitted[k].type = "UpdateData"}
        IN updates # {} =>
               call.snap.data =
                   call.emitted[CHOOSE k \in updates :
                                    \A j \in updates : j <= k].data


\* The sum of the balances of token X in a store.
TokenSupply(st) ==
    SumOver([k \in TokenKeys |-> unwrap_or_default(st[k])],
            {k \in TokenKeys : k.kind = "balance"})

\* C35: token::transfer leaves the sum of the balances of the token
\* unchanged: the balance of the source is lower by the amount and that of
\* the target higher by it, and unchanged when source and target are one.
C35_TransferConservesSupply ==
    (call.fn = "token" /\ call.ret.op = "transfer" /\ call.ret.result = "ok") =>
        LET src_key == balance_key("X", call.ret.src)
            dest_key == balance_key("X", call.ret.dest)
            was(k) == unwrap_or_default(call.before[k])
            is(k) == unwrap_or_default(call.post[k])
        IN /\ TokenSupply(call.post) = TokenSupply(call.before)
           /\ call.ret.src # call.ret.dest =>
                  /\ is(src_key) = was(src_key) - call.ret.amount
                  /\ is(dest_key) = was(dest_key) + call.ret.amount
           /\ call.ret.src = call.ret.dest => is(src_key) = was(src_key)


\* C36: the token validity predicate accepts a transaction only if every
\* changed key is a balance key of the token, the changes of the balances
\* over the changed keys sum to zero and the owner of every decreased
\* balance is a verifier; so no accepted transaction changes the total
\* supply of the token.
C36_VpConservesSupply ==
    (call.fn = "token" /\ call.ret.op = "vp" /\ call.ret.result = "accept") =>
        /\ \A k \in call.keys_changed : k.kind = "balance" /\ k.token = "X"
        /\ SumOver(this_change(call.pre, call.post), call.keys_changed) = 0
        /\ \A k \in call.keys_changed :
               unwrap_or_default(call.post[k]) < unwrap_or_default(call.pre[k])
                   => k.owner \in call.ret.verifiers
        /\ TokenSupply(call.post) = TokenSupply(call.pre)

\* The validity predicate accepted a transfer from A to B with A among the
\* verifiers.
C36_Witness ==
    /\ call.fn = "token"
    /\ call.ret.op = "vp"
    /\ call.ret.result = "accept"
    /\ call.ret.verifiers = {"A"}
    /\ call.keys_changed = {balance_key("X", "A"), balance_key("X", "B")}
    /\ call.pre[balance_key("X", "A")] = Some(2)
    /\ call.post[balance_key("X", "A")] = Some(1)
    /\ call.post[balance_key("X", "B")] = Some(1)
    /\ call.pre[balance_key("X", "B")] = None


\* C38: two complementary intents (each sells the token and amount the
\* other buys), added in either order to an empty graph, form a cycle: the
\* run for the second emits one InjectTx with both transfers and removes
\* both nodes from the graph.
C38_ComplementaryPairMatched ==
    (call.fn = "mm_template" /\ Len(call.fed) = 2
        /\ {call.fed[1], call.fed[2]} = {"t1", "c1"}) =>
        /\ call.status = "returned"
        /\ Len(call.injected) = 1
        /\ Cardinality(call.injected[1].transfers) = 2
        /\ call.graph.nodes = <<>>

\* C39: sort_cycle terminates on every strongly connected component of
\* more than one node of a graph the matchmaker reaches, and returns each
\* node of the component once, each node of the result having an edge to
\* the one before it.  petgraph does not fix the order in which tarjan_scc
\* lists a component, so the formula asks this of one listing at least.
C39_SortCycleTerminates ==
    call.fn = "mm_template" =>
        \A s \in Cycles(call.matched) :
            \E listed \in Orders(s) :
                LET sorted == sort_cycle(call.matched, listed) IN
                /\ ~sorted.diverges
                /\ Len(sorted.cycle) = Cardinality(s)
                /\ {sorted.cycle[k] : k \in 1 .. Len(sorted.cycle)} = s
                /\ \A k \in 1 .. Len(sorted.cycle) - 1 :
                       <<sorted.cycle[k + 1], sorted.cycle[k]>>
                           \in call.matched.edges


\* C40: key_comparator is a strict total order on the keys the DB holds:
\* two keys compare equal only if they are the same key, a key below
\* another has the other above it, and the order is transitive; a row of a
\* lower height is below every row of a higher height, by the number (9
\* before 10); and the scan from `<h>/` up to `<h+1>/`, not included,
\* yields exactly the rows of block h.
C40_ComparatorTotalOrder ==
    (call.fn = "key_comparator" /\ call.ret.done) =>
        /\ (call.ret.ab = "Equal") = (call.a.path = call.b.path)
        /\ (call.ret.ab = "Less") = (call.ret.ba = "Greater")
        /\ (call.ret.ab = "Less" /\ call.ret.bc = "Less") => call.ret.ac = "Less"
        /\ (call.a.block >= 0 /\ call.b.block >= 0
               /\ call.a.block < call.b.block) => call.ret.ab = "Less"
        /\ call.ret.scanned = {k \in DbKeys : k.block = call.height}

\* A row of height 9 compared with a row of height 10 and with the key
\* `height`, and block 9 scanned.
C40_Witness ==
    /\ call.fn = "key_comparator"
    /\ call.ret.done
    /\ call.a.block = 9
    /\ call.b.block = 10
    /\ call.c.path = <<104, 101, 105, 103, 104, 116>>
    /\ call.ret.ab = "Less"
    /\ call.ret.bc = "Less"
    /\ call.height = 9
    /\ Cardinality(call.ret.scanned) = 5

====
